---------------------------- MODULE Spec2Model ----------------------------
(***************************************************************************)
(* A model of "crook", a file compressor made of a binary PPM model        *)
(* (src/crook.cpp, src/model.hpp) and a carry-aware binary range coder     *)
(* (src/crook.cpp, src/rc.hpp, src/rc_encoder.hpp, src/rc_decoder.hpp).    *)
(*                                                                         *)
(* TLC's integers are 32-bit signed, the program's registers are unsigned  *)
(* 32- and 64-bit.  A U32 is therefore kept as a pair <<hi, lo>> of 16-bit *)
(* halves (value hi * 65536 + lo) and every operation on it is done on the *)
(* halves, modulo 2^32 exactly as the hardware does it.                    *)
(***************************************************************************)
EXTENDS Integers, Sequences, FiniteSets, TLC

VARIABLES
    memoryLimit,   \* global int memoryLimit (option -m)
    orderLimit,    \* global int orderLimit  (option -O)
    textFile,      \* the uncompressed file given to Compress
    codeFile,      \* the compressed file: written by Compress, read by Decompress
    outFile,       \* the file Decompress writes
    pc,            \* position of the running driver
    textLength,    \* U32 textLength of Compress / Decompress
    processed,     \* U32 processed (loop counter of the driver)
    c,             \* U32 c: the byte being coded / decoded
    mask,          \* U32 mask: the bit of c being coded / decoded
    p1,            \* U32 p1: the prediction for the current bit
    bit,           \* the bit just coded / decoded
    ppm,           \* the PPM object
    enc,           \* the Encoder object
    dec,           \* the Decoder object
    rpos,          \* read position of Decompress in codeFile
    node,          \* one Node, followed on its own through its updates
    calc,          \* one call of a free-standing computation: its arguments and its value
    parse,         \* getopt's argv, optind, optarg and statics, over the calls of one loop
    hist           \* history of the run (what the properties observe, never read by the program)

vars == <<memoryLimit, orderLimit, textFile, codeFile, outFile, pc, textLength,
          processed, c, mask, p1, bit, ppm, enc, dec, rpos, node, calc, parse, hist>>

---------------------------------------------------------------------------
(* Bounds of the model *)

\* longest text file
MaxLen == 3
\* longest body (after the 4-byte prefix) of an arbitrary code file
MaxCodeLen == 6
\* largest length an arbitrary code file's prefix announces
MaxDecLen == 1
\* most bits coded by the coder driven with arbitrary probabilities
MaxBits == 4
\* the updates of a node, after the run it starts with, that take any bit
MaxFree == 4
\* arguments on a command line, after the program's name
MaxArgs == 3
\* bytes per unit of memoryLimit.  The program's unit is 1 << 20 (a MiB), which
\* puts the arena cap at multiples of 65536 nodes; the model scales the unit
\* down so that a text of MaxLen bytes reaches the cap.
MiB == 32

\* the bytes a text file is made of
TextBytes == {96, 97, 255}
\* the bytes the body of an arbitrary code file is made of
CodeBytes == {0, 255}
\* -m values for which the arena holds the initial trie: exactly the initial
\* 256 nodes (the default 128 under the scaled unit), room for two more, ample room
MemoryLimits == {128, 129, 200}
\* -m values the command line accepts: the above and an arena of no node
AcceptedMemoryLimits == MemoryLimits \cup {0}
\* -O values
OrderLimits == {0, 1, 2}
\* probabilities handed to the coder when it is driven alone
Probs == {1, 2048, 4095}

---------------------------------------------------------------------------
(* Program constants *)

ARI_P_BITS == 12
ARI_P_SCALE == 2 ^ ARI_P_BITS
DIVISOR_BITS == 10
DIVISOR_LIMIT == 2 ^ DIVISOR_BITS
RECIPROCAL_BITS == 15
RECIPROCAL_LIMIT == 2 ^ RECIPROCAL_BITS
PPM_P_BITS == 22
PPM_C_BITS == 10
PPM_P_SCALE == 2 ^ PPM_P_BITS
PPM_C_LIMIT == 2 ^ PPM_C_BITS
PPM_C_SCALE == 32
PPM_C_MASK == PPM_C_LIMIT - 1
PPM_P_START == PPM_P_SCALE \div 2
PPM_C_START == PPM_C_SCALE * 12
PPM_C_INH == (PPM_C_SCALE * 3) \div 2
PPM_C_INC == PPM_C_SCALE
\* sizeof(Node): four 32-bit fields
SizeofNode == 16
\* what getc returns at the end of the file
EOF == 0 - 1

---------------------------------------------------------------------------
(* Unsigned 32-bit arithmetic on <<hi, lo>> *)

\* 2^16: the weight of the high half
W16 == 2 ^ 16

\* a small non-negative integer as a U32
U32Of(n) == <<(n \div W16) % W16, n % W16>>

\* an int converted to U32 (getc's result added to a U32): -1 becomes 0xFFFFFFFF
IntToU32(i) == IF i < 0 THEN <<(W16 - 1 + ((i + 1) \div W16)) % W16, i % W16>>
               ELSE U32Of(i)

Add32(a, b) == LET s == a[2] + b[2]
               IN  <<(a[1] + b[1] + s \div W16) % W16, s % W16>>

\* the carry out of bit 31 of a + b
Carry32(a, b) == (a[1] + b[1] + (a[2] + b[2]) \div W16) \div W16

Sub32(a, b) == LET d == a[2] - b[2]
               IN  <<(a[1] - b[1] - (IF d < 0 THEN 1 ELSE 0)) % W16, d % W16>>

Lt32(a, b) == a[1] < b[1] \/ (a[1] = b[1] /\ a[2] < b[2])

Le32(a, b) == a = b \/ Lt32(a, b)

\* a << 8, the top byte falls off
Shl8(a) == <<(a[1] % 256) * 256 + a[2] \div 256, (a[2] % 256) * 256>>

\* a >> 24, a >> 16, a >> 8 and a as putc writes them (converted to unsigned char)
ByteOf(a, k) == CASE k = 3 -> a[1] \div 256
                  [] k = 2 -> a[1] % 256
                  [] k = 1 -> a[2] \div 256
                  [] OTHER -> a[2] % 256

\* a << k for k a multiple of 8
RECURSIVE Shl32(_, _)
Shl32(a, k) == IF k = 0 THEN a ELSE Shl32(Shl8(a), k - 8)

\* (a / ARI_P_SCALE) * p for a U32 a and a probability p < 2^15, modulo 2^32:
\* q = a >> 12 is split into its halves qh, ql and multiplied half by half
MulDiv(a, p) == LET qh == a[1] \div ARI_P_SCALE
                    ql == (a[1] % ARI_P_SCALE) * (W16 \div ARI_P_SCALE) + a[2] \div ARI_P_SCALE
                    lo == ql * p
                IN  <<(qh * p + lo \div W16) % W16, lo % W16>>

\* a renormalisation threshold of 0xFFFF
Low16 == <<0, W16 - 1>>

\* 0xFFFFFFFF, 0x00FFFFFF and 0xFF000000
MaxU32 == <<W16 - 1, W16 - 1>>
Low24 == <<255, W16 - 1>>
TopFF == <<255 * 256, 0>>

---------------------------------------------------------------------------
(* Divide, Fit, Fit0 *)

\* ReciprocalTable::t
reciprocals == [n \in 0 .. DIVISOR_LIMIT - 1 |-> (RECIPROCAL_LIMIT \div (n + 2)) % W16]

Excess(n, m) == IF n > m THEN n - m ELSE 0

Divide(x, n, y, m) ==
    LET dn == Excess(n, 32 - RECIPROCAL_BITS)
        dm == Excess(m, DIVISOR_BITS)
        dk == RECIPROCAL_BITS + dm - dn
    IN  ((x \div 2 ^ dn) * reciprocals[y \div 2 ^ dm]) \div 2 ^ dk

Fit(x, n, m) == IF n > m THEN x \div 2 ^ (n - m) ELSE x * 2 ^ (m - n)

\* a Fit0 without the correction that keeps the result off zero
Fit0Plain(x, n, m) == Fit(x, n, m)

Fit0(x, n, m) == Fit(x, n, m) + 1 - x \div 2 ^ (n - 1)

---------------------------------------------------------------------------
(* Node.  ctr is a U32: the probability in its 22 high bits, the count in  *)
(* its 10 low bits.                                                        *)

\* ctr >> PPM_C_BITS
CtrP1(ctr) == ctr[1] * (W16 \div PPM_C_LIMIT) + ctr[2] \div PPM_C_LIMIT

\* ctr & PPM_C_MASK
CtrCnt(ctr) == ctr[2] % PPM_C_LIMIT

\* (p << PPM_C_BITS) + cnt as a U32; p is the U32 the local p1 holds, given
\* as an integer that is reduced modulo 2^32 by the shift
PackCtr(p, cnt) ==
    Add32(<<(p \div (W16 \div PPM_C_LIMIT)) % W16, (p % (W16 \div PPM_C_LIMIT)) * PPM_C_LIMIT>>,
          U32Of(cnt))

\* Node(ext0, ext1, sfx)
InitialNode(ext0, ext1, sfx) ==
    [ext0 |-> ext0, ext1 |-> ext1, sfx |-> sfx, ctr |-> PackCtr(PPM_P_START, PPM_C_START)]

\* a constructor that inherits the count with the probability: ctr = sfxp->ctr
InheritedNodeKeepCount(sfx, sfxp) ==
    [ext0 |-> 0, ext1 |-> 0, sfx |-> sfx, ctr |-> sfxp.ctr]

\* a constructor that copies the whole of *sfxp before it sets sfx and ctr
InheritedNodeCopy(sfx, sfxp) ==
    [ext0 |-> sfxp.ext0, ext1 |-> sfxp.ext1, sfx |-> sfx,
     ctr |-> Add32(<<sfxp.ctr[1], sfxp.ctr[2] - (sfxp.ctr[2] % PPM_C_LIMIT)>>, U32Of(PPM_C_INH))]

\* Node(sfx, sfxp): ctr = (sfxp->ctr & PPM_P_MASK) + PPM_C_INH
InheritedNode(sfx, sfxp) ==
    [ext0 |-> 0, ext1 |-> 0, sfx |-> sfx,
     ctr |-> Add32(<<sfxp.ctr[1], sfxp.ctr[2] - (sfxp.ctr[2] % PPM_C_LIMIT)>>, U32Of(PPM_C_INH))]

\* Node::Predict
NodePredict(n) == CtrP1(n.ctr)

\* an increment of the count that does not saturate
UpdateCntUnsaturated(ctr) == CtrCnt(ctr) + PPM_C_INC

\* the local cnt of Node::Update after the saturating increment
UpdateCnt(ctr) ==
    IF CtrCnt(ctr) < PPM_C_LIMIT - PPM_C_INC THEN CtrCnt(ctr) + PPM_C_INC
    ELSE PPM_C_LIMIT - 1

\* an adjustment away from the observed bit: subtract on a 1, add on a 0
UpdateP1Away(ctr, b) ==
    IF b = 0
    THEN CtrP1(ctr) + PPM_C_SCALE * Divide(PPM_P_SCALE - CtrP1(ctr), PPM_P_BITS, UpdateCnt(ctr), PPM_C_BITS)
    ELSE CtrP1(ctr) - PPM_C_SCALE * Divide(CtrP1(ctr), PPM_P_BITS, UpdateCnt(ctr), PPM_C_BITS)

\* the local p1 of Node::Update after the adjustment (negative: the U32 wrapped)
UpdateP1(ctr, b) ==
    IF b = 1
    THEN CtrP1(ctr) + PPM_C_SCALE * Divide(PPM_P_SCALE - CtrP1(ctr), PPM_P_BITS, UpdateCnt(ctr), PPM_C_BITS)
    ELSE CtrP1(ctr) - PPM_C_SCALE * Divide(CtrP1(ctr), PPM_P_BITS, UpdateCnt(ctr), PPM_C_BITS)

\* the two asserts of Node::Update
UpdateAsserts(ctr, b) ==
    /\ UpdateCnt(ctr) < PPM_C_LIMIT
    /\ 0 < UpdateP1(ctr, b) /\ UpdateP1(ctr, b) < PPM_P_SCALE

\* Node::Update<bit>
NodeUpdate(n, b) == [n EXCEPT !.ctr = PackCtr(UpdateP1(n.ctr, b), UpdateCnt(n.ctr))]

\* Node::Ext<bit>
Ext(n, b) == IF b = 1 THEN n.ext1 ELSE n.ext0

\* Node::Ext<bit>() = v
SetExt(n, b, v) == IF b = 1 THEN [n EXCEPT !.ext1 = v] ELSE [n EXCEPT !.ext0 = v]

---------------------------------------------------------------------------
(* PPM.  nodes holds the cells that have been written, 0 .. top - 1; the   *)
(* cells new Node[nodesLimit] leaves unwritten (Node() {} sets no field)   *)
(* hold whatever the allocation held, given to the operators as g.         *)

\* what an unwritten cell may hold
GarbageNodes ==
    {[ext0 |-> 0, ext1 |-> 0, sfx |-> 0, ctr |-> <<0, 0>>],
     [ext0 |-> 1, ext1 |-> 1, sfx |-> 1, ctr |-> MaxU32]}

\* nodes[i] as the program reads it
NodeAt(P, i, g) == IF i < P.top THEN P.nodes[i] ELSE g

\* an initial trie whose root is written like a leaf: Node(0, 0, 0)
InitialNodesLeafRoot ==
    [i \in 0 .. 255 |->
        IF i = 0 THEN InitialNode(0, 0, 0)
        ELSE IF i < 128 THEN InitialNode(2 * i, 2 * i + 1, 0)
        ELSE InitialNode(0, 0, 0)]

\* the nodes the constructor writes
InitialNodes ==
    [i \in 0 .. 255 |->
        IF i = 0 THEN InitialNode(1, 1, 0)
        ELSE IF i < 128 THEN InitialNode(2 * i, 2 * i + 1, 0)
        ELSE InitialNode(0, 0, 0)]

\* a constructor that counts one bit more: orderLimitBits = 8*orderLimit + 8
PPMConstructOrderBits(m, o) ==
    [nodes          |-> InitialNodes,
     top            |-> 256,
     act            |-> 1,
     order          |-> 0,
     nodesLimit     |-> (m * MiB) \div SizeofNode,
     orderLimitBits |-> 8 * o + 8]

\* a constructor that sets top one node short: top = nodes + 255
PPMConstructShort(m, o) ==
    [nodes          |-> [i \in 0 .. 254 |-> InitialNodes[i]],
     top            |-> 255,
     act            |-> 1,
     order          |-> 0,
     nodesLimit     |-> (m * MiB) \div SizeofNode,
     orderLimitBits |-> 8 * o + 7]

\* PPM::PPM
PPMConstruct(m, o) ==
    [nodes          |-> InitialNodes,
     top            |-> 256,
     act            |-> 1,
     order          |-> 0,
     nodesLimit     |-> (m * MiB) \div SizeofNode,
     orderLimitBits |-> 8 * o + 7]

\* PPM::Predict
PPMPredict(P, g) == Fit0(NodePredict(NodeAt(P, P.act, g)), PPM_P_BITS, ARI_P_BITS)

\* the while loop of PPM::Update<bit>: w holds nodes, act, lst, order, the
\* indices dereferenced (acc) and the number of hops; fuel stops a walk that
\* would not end (hang)
RECURSIVE Walk(_, _, _, _, _)
Walk(P, w, b, g, fuel) ==
    LET n == NodeAt([P EXCEPT !.nodes = w.nodes], w.act, g)
    IN  IF Ext(n, b) # 0 THEN w
        ELSE IF fuel = 0 THEN [w EXCEPT !.hang = TRUE]
        ELSE LET a  == n.sfx
                 sn == NodeUpdate(NodeAt([P EXCEPT !.nodes = w.nodes], a, g), b)
             IN  Walk(P,
                      [nodes |-> IF a < P.top THEN [w.nodes EXCEPT ![a] = sn] ELSE w.nodes,
                       act   |-> a,
                       lst   |-> w.act,
                       order |-> w.order - 8,
                       acc   |-> w.acc \cup {a},
                       hops  |-> w.hops + 1,
                       hang  |-> FALSE],
                      b, g, fuel - 1)

\* a growth that hangs the new node on the node where the walk stopped:
\* act->Ext<bit>() = top - nodes
GrowAtStop(P, w, b, g) ==
    LET ext == Ext(NodeAt([P EXCEPT !.nodes = w.nodes], w.act, g), b)
        n1  == IF w.act < P.top
               THEN [w.nodes EXCEPT ![w.act] = SetExt(w.nodes[w.act], b, P.top)]
               ELSE w.nodes
        new == InheritedNode(ext, NodeAt([P EXCEPT !.nodes = n1], ext, g))
    IN  [ppm  |-> [P EXCEPT !.nodes = [i \in 0 .. P.top |-> IF i = P.top THEN new ELSE n1[i]],
                            !.top   = P.top + 1,
                            !.act   = P.top,
                            !.order = w.order + 9],
         acc  |-> w.acc \cup {ext, P.top},
         read |-> w.acc \cup {ext},
         lst  |-> w.lst, stop |-> w.act,
         hops |-> w.hops, grew |-> TRUE, hang |-> w.hang]

\* a growth that makes the new node and then moves on as if it had not:
\* act = ext; order++
GrowAndDescend(P, w, b, g) ==
    LET ext == Ext(NodeAt([P EXCEPT !.nodes = w.nodes], w.act, g), b)
        n1  == IF w.lst < P.top
               THEN [w.nodes EXCEPT ![w.lst] = SetExt(w.nodes[w.lst], b, P.top)]
               ELSE w.nodes
        new == InheritedNode(ext, NodeAt([P EXCEPT !.nodes = n1], ext, g))
    IN  [ppm  |-> [P EXCEPT !.nodes = [i \in 0 .. P.top |-> IF i = P.top THEN new ELSE n1[i]],
                            !.top   = P.top + 1,
                            !.act   = ext,
                            !.order = w.order + 1],
         acc  |-> w.acc \cup {ext, P.top},
         read |-> w.acc \cup {ext},
         lst  |-> w.lst, stop |-> w.act,
         hops |-> w.hops, grew |-> TRUE, hang |-> w.hang]

\* the branch of PPM::Update<bit> that grows the model, after the walk w:
\* lst->Ext<bit>() = top - nodes; *top = Node(ext - nodes, ext); act = top++; order += 9
Grow(P, w, b, g) ==
    LET ext == Ext(NodeAt([P EXCEPT !.nodes = w.nodes], w.act, g), b)
        n1  == IF w.lst < P.top
               THEN [w.nodes EXCEPT ![w.lst] = SetExt(w.nodes[w.lst], b, P.top)]
               ELSE w.nodes
        new == InheritedNode(ext, NodeAt([P EXCEPT !.nodes = n1], ext, g))
    IN  [ppm  |-> [P EXCEPT !.nodes = [i \in 0 .. P.top |-> IF i = P.top THEN new ELSE n1[i]],
                            !.top   = P.top + 1,
                            !.act   = P.top,
                            !.order = w.order + 9],
         acc  |-> w.acc \cup {ext, P.top},
         read |-> w.acc \cup {ext},
         lst  |-> w.lst, stop |-> w.act,
         hops |-> w.hops, grew |-> TRUE, hang |-> w.hang]

\* a branch that moves on and leaves order as the walk left it: act = ext
DescendKeepOrder(P, w, b, g) ==
    LET ext == Ext(NodeAt([P EXCEPT !.nodes = w.nodes], w.act, g), b)
    IN  [ppm  |-> [P EXCEPT !.nodes = w.nodes, !.act = ext, !.order = w.order],
         acc  |-> w.acc,
         read |-> w.acc,
         lst  |-> w.lst, stop |-> w.act,
         hops |-> w.hops, grew |-> FALSE, hang |-> w.hang]

\* the branch that does not: act = ext; order++
Descend(P, w, b, g) ==
    LET ext == Ext(NodeAt([P EXCEPT !.nodes = w.nodes], w.act, g), b)
    IN  [ppm  |-> [P EXCEPT !.nodes = w.nodes, !.act = ext, !.order = w.order + 1],
         acc  |-> w.acc,
         read |-> w.acc,
         lst  |-> w.lst, stop |-> w.act,
         hops |-> w.hops, grew |-> FALSE, hang |-> w.hang]

\* a condition that leaves out order+9 <= orderLimitBits
ShouldGrowAnyOrder(P, w) ==
    w.act # w.lst /\ P.top < P.nodesLimit

\* a condition that leaves out top < end
ShouldGrowUncapped(P, w) ==
    w.act # w.lst /\ w.order + 9 <= P.orderLimitBits

\* act != lst && order+9 <= orderLimitBits && top < end
ShouldGrow(P, w) ==
    w.act # w.lst /\ w.order + 9 <= P.orderLimitBits /\ P.top < P.nodesLimit

\* an Update that starts its walk without updating the active node
PPMUpdateSkipFirst(P, b, g) ==
    LET a0 == P.act
        w  == Walk(P,
                   [nodes |-> P.nodes,
                    act |-> a0, lst |-> a0, order |-> P.order,
                    acc |-> {a0}, hops |-> 0, hang |-> FALSE],
                   b, g, P.top + 1)
    IN  IF ShouldGrow(P, w) THEN Grow(P, w, b, g) ELSE Descend(P, w, b, g)

\* PPM::Update<bit>: the new PPM (ppm), the indices it dereferenced (acc) and
\* read (read), the last two nodes of the walk (lst, stop), the hops of the
\* walk, whether it grew, whether the walk did not end
PPMUpdate(P, b, g) ==
    LET a0 == P.act
        n0 == NodeUpdate(NodeAt(P, a0, g), b)
        w  == Walk(P,
                   [nodes |-> IF a0 < P.top THEN [P.nodes EXCEPT ![a0] = n0] ELSE P.nodes,
                    act |-> a0, lst |-> a0, order |-> P.order,
                    acc |-> {a0}, hops |-> 0, hang |-> FALSE],
                   b, g, P.top + 1)
    IN  IF ShouldGrow(P, w) THEN Grow(P, w, b, g) ELSE Descend(P, w, b, g)

---------------------------------------------------------------------------
(* Encoder.  low is a U64: hi is its upper half (hi32), lo its lower half  *)
(* (lo32).                                                                 *)

\* Encoder::Encoder
EncoderInit ==
    [low |-> [hi |-> 0, lo |-> <<0, 0>>], range |-> MaxU32, fluxLen |-> 1, fluxFst |-> 0]

\* an Encode that keeps only the carry of its own addition in hi32
EncodeOwnCarry(e, b, p) ==
    LET mid == MulDiv(e.range, p)
    IN  IF b = 1
        THEN [e EXCEPT !.range = mid]
        ELSE [e EXCEPT !.low   = [hi |-> Carry32(e.low.lo, mid),
                                  lo |-> Add32(e.low.lo, mid)],
                       !.range = Sub32(e.range, mid)]

\* Encoder::Encode<bit>(p1)
Encode(e, b, p) ==
    LET mid == MulDiv(e.range, p)
    IN  IF b = 1
        THEN [e EXCEPT !.range = mid]
        ELSE [e EXCEPT !.low   = [hi |-> e.low.hi + Carry32(e.low.lo, mid),
                                  lo |-> Add32(e.low.lo, mid)],
                       !.range = Sub32(e.range, mid)]

\* n copies of byte x
Run(x, n) == [i \in 1 .. n |-> x]

\* pending bytes written as they were held, without the carry:
\* putc(fluxFst); while (--fluxLen) putc(0xFF);
PendingNoCarry(e) == <<e.fluxFst>> \o Run(255, e.fluxLen - 1)

\* pending bytes that start with the top byte of low, not with the held byte
PendingNewByte(e) ==
    <<(ByteOf(e.low.lo, 3) + e.low.hi) % 256>> \o Run((255 + e.low.hi) % 256, e.fluxLen - 1)

\* putc(fluxFst + hi32); while (--fluxLen) putc(0xFF + hi32);
\* fluxLen is at least 1 whenever this runs and is 0 afterwards
Pending(e) == <<(e.fluxFst + e.low.hi) % 256>> \o Run((255 + e.low.hi) % 256, e.fluxLen - 1)

\* the loop of Encoder::Normalize on s = [rc, file, shifts, flushed, hang]:
\* flushed tells of each iteration whether it wrote the pending bytes; fuel
\* stops a loop that would not end (range = 0)
RECURSIVE EncoderLoop(_, _)
EncoderLoop(s, fuel) ==
    LET e == s.rc
    IN  IF ~Le32(e.range, Low24) THEN s
        ELSE IF fuel = 0 THEN [s EXCEPT !.hang = TRUE]
        ELSE LET flush == Lt32(e.low.lo, TopFF) \/ e.low.hi # 0
             IN  EncoderLoop(
                     [rc     |-> [low     |-> [hi |-> 0, lo |-> Shl8(e.low.lo)],
                                  range   |-> Shl8(e.range),
                                  fluxLen |-> (IF flush THEN 0 ELSE e.fluxLen) + 1,
                                  fluxFst |-> IF flush THEN ByteOf(e.low.lo, 3) ELSE e.fluxFst],
                      file   |-> IF flush THEN s.file \o Pending(e) ELSE s.file,
                      shifts |-> s.shifts + 1,
                      flushed |-> Append(s.flushed, flush),
                      hang   |-> FALSE],
                     fuel - 1)

\* a loop that takes the top byte of low as the held byte in every
\* iteration, also when it writes nothing
RECURSIVE EncoderLoopHoldAll(_, _)
EncoderLoopHoldAll(s, fuel) ==
    LET e == s.rc
    IN  IF ~Le32(e.range, Low24) THEN s
        ELSE IF fuel = 0 THEN [s EXCEPT !.hang = TRUE]
        ELSE LET flush == Lt32(e.low.lo, TopFF) \/ e.low.hi # 0
             IN  EncoderLoopHoldAll(
                     [rc     |-> [low     |-> [hi |-> 0, lo |-> Shl8(e.low.lo)],
                                  range   |-> Shl8(e.range),
                                  fluxLen |-> (IF flush THEN 0 ELSE e.fluxLen) + 1,
                                  fluxFst |-> ByteOf(e.low.lo, 3)],
                      file   |-> IF flush THEN s.file \o Pending(e) ELSE s.file,
                      shifts |-> s.shifts + 1,
                      flushed |-> Append(s.flushed, flush),
                      hang   |-> FALSE],
                     fuel - 1)

\* Normalize with that loop
EncoderNormalizeHoldAll(e, f) ==
    EncoderLoopHoldAll([rc |-> e, file |-> f, shifts |-> 0, flushed |-> <<>>, hang |-> FALSE], 5)

\* a loop that counts on from the old fluxLen after it has written the
\* pending bytes
RECURSIVE EncoderLoopKeepLen(_, _)
EncoderLoopKeepLen(s, fuel) ==
    LET e == s.rc
    IN  IF ~Le32(e.range, Low24) THEN s
        ELSE IF fuel = 0 THEN [s EXCEPT !.hang = TRUE]
        ELSE LET flush == Lt32(e.low.lo, TopFF) \/ e.low.hi # 0
             IN  EncoderLoopKeepLen(
                     [rc     |-> [low     |-> [hi |-> 0, lo |-> Shl8(e.low.lo)],
                                  range   |-> Shl8(e.range),
                                  fluxLen |-> e.fluxLen + 1,
                                  fluxFst |-> IF flush THEN ByteOf(e.low.lo, 3) ELSE e.fluxFst],
                      file   |-> IF flush THEN s.file \o Pending(e) ELSE s.file,
                      shifts |-> s.shifts + 1,
                      flushed |-> Append(s.flushed, flush),
                      hang   |-> FALSE],
                     fuel - 1)

\* Normalize with that loop
EncoderNormalizeKeepLen(e, f) ==
    EncoderLoopKeepLen([rc |-> e, file |-> f, shifts |-> 0, flushed |-> <<>>, hang |-> FALSE], 5)

\* Encoder::Normalize, writing to file f
EncoderNormalize(e, f) ==
    EncoderLoop([rc |-> e, file |-> f, shifts |-> 0, flushed |-> <<>>, hang |-> FALSE], 5)

\* a FlushBuffer that writes the pending bytes and three bytes of low
FlushBufferThree(e, f) ==
    [rc   |-> [e EXCEPT !.fluxLen = 0],
     file |-> f \o Pending(e)
                \o <<ByteOf(e.low.lo, 3), ByteOf(e.low.lo, 2), ByteOf(e.low.lo, 1)>>]

\* Encoder::FlushBuffer, writing to file f
FlushBuffer(e, f) ==
    [rc   |-> [e EXCEPT !.fluxLen = 0],
     file |-> f \o Pending(e)
                \o <<ByteOf(e.low.lo, 3), ByteOf(e.low.lo, 2), ByteOf(e.low.lo, 1), ByteOf(e.low.lo, 0)>>]

---------------------------------------------------------------------------
(* Decoder *)

\* Decoder::Decoder
DecoderInit == [range |-> MaxU32, cml |-> <<0, 0>>]

\* getc at position pos of file f
Getc(f, pos) == IF pos < Len(f) THEN f[pos + 1] ELSE EOF

\* the position after getc
Advance(f, pos) == IF pos < Len(f) THEN pos + 1 ELSE pos

\* cml = (cml << 8) + getc(codeFile)
ShiftIn(cml, ch) == Add32(Shl8(cml), IntToU32(ch))

\* Decoder::FillBuffer on s = [rc, pos, eofs], reading file f
RECURSIVE FillLoop(_, _, _)
FillLoop(s, f, i) ==
    IF i = 5 THEN s
    ELSE FillLoop([rc   |-> [s.rc EXCEPT !.cml = ShiftIn(s.rc.cml, Getc(f, s.pos))],
                   pos  |-> Advance(f, s.pos),
                   eofs |-> s.eofs + (IF s.pos < Len(f) THEN 0 ELSE 1)],
                  f, i + 1)

\* a FillBuffer that reads six bytes
FillBufferSix(d, f, pos) == FillLoop([rc |-> d, pos |-> pos, eofs |-> 0], f, 0 - 1)

\* a FillBuffer that takes the first byte of the stream for data: it reads
\* four bytes, not five
FillBufferFour(d, f, pos) == FillLoop([rc |-> d, pos |-> pos, eofs |-> 0], f, 1)

FillBuffer(d, f, pos) == FillLoop([rc |-> d, pos |-> pos, eofs |-> 0], f, 0)

\* a Decode with the comparison turned round: cml >= mid gives 1
DecodeTurned(d, p) ==
    LET mid == MulDiv(d.range, p)
    IN  IF ~Lt32(d.cml, mid)
        THEN [rc |-> [d EXCEPT !.range = mid], bit |-> 1]
        ELSE [rc |-> [d EXCEPT !.cml = Sub32(d.cml, mid), !.range = Sub32(d.range, mid)],
              bit |-> 0]

\* a Decode that leaves cml as it was on a 0 bit
DecodeKeepCml(d, p) ==
    LET mid == MulDiv(d.range, p)
    IN  IF Lt32(d.cml, mid)
        THEN [rc |-> [d EXCEPT !.range = mid], bit |-> 1]
        ELSE [rc |-> [d EXCEPT !.range = Sub32(d.range, mid)], bit |-> 0]

\* a Decode that leaves range as it was on a 0 bit
DecodeKeepRange(d, p) ==
    LET mid == MulDiv(d.range, p)
    IN  IF Lt32(d.cml, mid)
        THEN [rc |-> [d EXCEPT !.range = mid], bit |-> 1]
        ELSE [rc |-> [d EXCEPT !.cml = Sub32(d.cml, mid)], bit |-> 0]

\* Decoder::Decode(p1): the decoder after the call and the bit returned
Decode(d, p) ==
    LET mid == MulDiv(d.range, p)
    IN  IF Lt32(d.cml, mid)
        THEN [rc |-> [d EXCEPT !.range = mid], bit |-> 1]
        ELSE [rc |-> [d EXCEPT !.cml = Sub32(d.cml, mid), !.range = Sub32(d.range, mid)],
              bit |-> 0]

\* the loop of Decoder::Normalize on s = [rc, pos, eofs, shifts, hang]
RECURSIVE DecoderLoop(_, _, _)
DecoderLoop(s, f, fuel) ==
    IF ~Le32(s.rc.range, Low24) THEN s
    ELSE IF fuel = 0 THEN [s EXCEPT !.hang = TRUE]
    ELSE DecoderLoop([rc     |-> [range |-> Shl8(s.rc.range),
                                  cml   |-> ShiftIn(s.rc.cml, Getc(f, s.pos))],
                      pos    |-> Advance(f, s.pos),
                      eofs   |-> s.eofs + (IF s.pos < Len(f) THEN 0 ELSE 1),
                      shifts |-> s.shifts + 1,
                      hang   |-> FALSE],
                     f, fuel - 1)

\* Decoder::Normalize, reading file f from pos
DecoderNormalize(d, f, pos) ==
    DecoderLoop([rc |-> d, pos |-> pos, eofs |-> 0, shifts |-> 0, hang |-> FALSE], f, 5)

---------------------------------------------------------------------------
(* The drivers: Compress and Decompress, one action per statement of the   *)
(* per-bit loop.                                                           *)

\* sequences over S of length at most n
RECURSIVE SeqsUpTo(_, _)
SeqsUpTo(S, n) ==
    IF n = 0 THEN {<<>>}
    ELSE LET shorter == SeqsUpTo(S, n - 1)
         IN  shorter \cup {Append(t, x) : t \in {u \in shorter : Len(u) = n - 1}, x \in S}

\* no PPM object exists before the driver constructs one
NoPPM == [nodes |-> <<>>, top |-> 0, act |-> 0, order |-> 0, nodesLimit |-> 0, orderLimitBits |-> 0]

\* nothing has happened yet
NoHist ==
    [oob     |-> FALSE,   \* a node index >= nodesLimit was dereferenced
     uninit  |-> FALSE,   \* a node cell that was never written was read
     hang    |-> FALSE,   \* a loop did not end
     ranges  |-> <<>>,    \* the encoder's range after each Encode/Normalize pair
     probs   |-> <<>>,    \* the p1 of each coded bit
     bits    |-> <<>>,    \* each coded bit
     dbits   |-> <<>>,    \* each decoded bit
     eshifts |-> 0,       \* iterations of the encoder's renormalisation loop
     flushed |-> <<>>,    \* of each such iteration, whether it wrote the pending bytes
     dshifts |-> 0,       \* iterations of the decoder's renormalisation loop
     eofs    |-> 0,       \* getc calls that returned EOF
     calls   |-> <<>>,    \* the calls Compress made on rc and ppm, with arguments and results
     dcalls  |-> <<>>,    \* the calls Decompress made on rc and ppm
     exact   |-> <<0, 0, 0, 0, 0>>]  \* the lower end of the coding interval, in full

\* c & mask, as the bit it selects
BitOf(ch, m) == (ch \div m) % 2

\* the history after PPM::Update returned u on the PPM P
Observe(h, P, u) ==
    [h EXCEPT !.oob    = @ \/ (\E i \in u.acc : i >= P.nodesLimit),
              !.uninit = @ \/ (\E i \in u.read : i >= P.top),
              !.hang   = @ \/ u.hang]

\* Compress up to the loop: the length prefix, Encoder rc, PPM ppm
CompressBegin ==
    /\ pc = "Compress"
    /\ textLength' = U32Of(Len(textFile))
    /\ codeFile' = <<ByteOf(textLength', 3), ByteOf(textLength', 2),
                      ByteOf(textLength', 1), ByteOf(textLength', 0)>>
    /\ enc' = EncoderInit
    /\ ppm' = PPMConstruct(memoryLimit, orderLimit)
    /\ hist' = [hist EXCEPT !.oob = @ \/ ppm'.top > ppm'.nodesLimit]
    /\ processed' = 0
    /\ pc' = "c_loop"
    /\ UNCHANGED <<calc, parse, node, memoryLimit, orderLimit, textFile, outFile, c, mask, p1, bit, dec, rpos>>

\* for (processed = 0; processed != textLength; ++processed) { c = getc(textFile); mask = 1 << 7
CompressLoop ==
    /\ pc = "c_loop"
    /\ IF U32Of(processed) # textLength
       THEN /\ c' = Getc(textFile, processed) % 2 ^ 16
            /\ mask' = 128
            /\ pc' = "c_predict"
       ELSE /\ pc' = "c_flush"
            /\ UNCHANGED <<c, mask>>
    /\ UNCHANGED <<calc, parse, node, memoryLimit, orderLimit, textFile, codeFile, outFile, textLength,
                   processed, p1, bit, ppm, enc, dec, rpos, hist>>

\* U32 p1 = ppm.Predict()
CompressPredict ==
    /\ pc = "c_predict"
    /\ \E g \in GarbageNodes : p1' = PPMPredict(ppm, g)
    /\ hist' = [hist EXCEPT !.oob = @ \/ ppm.act >= ppm.nodesLimit,
                            !.uninit = @ \/ ppm.act >= ppm.top,
                            !.calls = Append(@, <<"Predict", p1'>>)]
    /\ pc' = "c_encode"
    /\ UNCHANGED <<calc, parse, node, memoryLimit, orderLimit, textFile, codeFile, outFile, textLength,
                   processed, c, mask, bit, ppm, enc, dec, rpos>>

\* rc.Encode<1>(p1) or rc.Encode<0>(p1)
CompressEncode ==
    /\ pc = "c_encode"
    /\ bit' = BitOf(c, mask)
    /\ enc' = Encode(enc, bit', p1)
    /\ hist' = [hist EXCEPT !.probs = Append(@, p1), !.bits = Append(@, bit'),
                            !.calls = Append(@, <<"Encode", p1, bit'>>)]
    /\ pc' = "c_update"
    /\ UNCHANGED <<calc, parse, node, memoryLimit, orderLimit, textFile, codeFile, outFile, textLength,
                   processed, c, mask, p1, ppm, dec, rpos>>

\* ppm.Update<1>() or ppm.Update<0>()
CompressUpdate ==
    /\ pc = "c_update"
    /\ \E g \in GarbageNodes :
          LET u == PPMUpdate(ppm, bit, g)
          IN  /\ ppm' = u.ppm
              /\ hist' = [Observe(hist, ppm, u) EXCEPT !.calls = Append(@, <<"Update", bit>>)]
    /\ pc' = "c_normalize"
    /\ UNCHANGED <<calc, parse, node, memoryLimit, orderLimit, textFile, codeFile, outFile, textLength,
                   processed, c, mask, p1, bit, enc, dec, rpos>>

\* an inner loop that asks Predict once per byte: after Normalize it goes on
\* with Encode
CompressNormalizeNoPredict ==
    /\ pc = "c_normalize"
    /\ LET s == EncoderNormalize(enc, codeFile)
       IN  /\ enc' = s.rc
           /\ codeFile' = s.file
           /\ hist' = [hist EXCEPT !.ranges = Append(@, s.rc.range),
                                   !.eshifts = @ + s.shifts,
                                   !.flushed = @ \o s.flushed,
                                   !.hang = @ \/ s.hang,
                                   !.calls = Append(@, <<"Normalize", mask>>)]
    /\ mask' = mask \div 2
    /\ IF mask' # 0
       THEN pc' = "c_encode" /\ processed' = processed
       ELSE pc' = "c_loop" /\ processed' = processed + 1
    /\ UNCHANGED <<calc, parse, node, memoryLimit, orderLimit, textFile, outFile, textLength,
                   c, p1, bit, ppm, dec, rpos>>

\* rc.Normalize(); mask >>= 1; at mask == 0 the byte is done: ++processed
CompressNormalize ==
    /\ pc = "c_normalize"
    /\ LET s == EncoderNormalize(enc, codeFile)
       IN  /\ enc' = s.rc
           /\ codeFile' = s.file
           /\ hist' = [hist EXCEPT !.ranges = Append(@, s.rc.range),
                                   !.eshifts = @ + s.shifts,
                                   !.flushed = @ \o s.flushed,
                                   !.hang = @ \/ s.hang,
                                   !.calls = Append(@, <<"Normalize", mask>>)]
    /\ mask' = mask \div 2
    /\ IF mask' # 0
       THEN pc' = "c_predict" /\ processed' = processed
       ELSE pc' = "c_loop" /\ processed' = processed + 1
    /\ UNCHANGED <<calc, parse, node, memoryLimit, orderLimit, textFile, outFile, textLength,
                   c, p1, bit, ppm, dec, rpos>>

\* rc.FlushBuffer()
CompressFlush ==
    /\ pc = "c_flush"
    /\ LET s == FlushBuffer(enc, codeFile)
       IN  enc' = s.rc /\ codeFile' = s.file
    /\ hist' = [hist EXCEPT !.calls = Append(@, <<"FlushBuffer">>)]
    /\ pc' = "c_done"
    /\ UNCHANGED <<calc, parse, node, memoryLimit, orderLimit, textFile, outFile, textLength,
                   processed, c, mask, p1, bit, ppm, dec, rpos>>

\* a length read least significant byte first
ReadLengthLittle(f) ==
    Add32(Add32(Shl32(IntToU32(Getc(f, 3)), 24), Shl32(IntToU32(Getc(f, 2)), 16)),
          Add32(Shl32(IntToU32(Getc(f, 1)), 8), IntToU32(Getc(f, 0))))

\* textLength += getc(codeFile) << 24, << 16, << 8, << 0 from position 0
ReadLength(f) ==
    Add32(Add32(Shl32(IntToU32(Getc(f, 0)), 24), Shl32(IntToU32(Getc(f, 1)), 16)),
          Add32(Shl32(IntToU32(Getc(f, 2)), 8), IntToU32(Getc(f, 3))))

\* Decompress up to rc.FillBuffer(): the length prefix, Decoder rc, PPM ppm.
\* It runs on the file a finished Compress wrote, with the same options.
DecompressBegin ==
    /\ pc \in {"c_done", "Decompress"}
    /\ textLength' = ReadLength(codeFile)
    /\ rpos' = IF Len(codeFile) < 4 THEN Len(codeFile) ELSE 4
    /\ dec' = DecoderInit
    /\ ppm' = PPMConstruct(memoryLimit, orderLimit)
    /\ hist' = [hist EXCEPT !.oob = @ \/ ppm'.top > ppm'.nodesLimit,
                            !.eofs = @ + (IF Len(codeFile) < 4 THEN 4 - Len(codeFile) ELSE 0)]
    /\ outFile' = <<>>
    /\ processed' = 0
    /\ pc' = "d_fill"
    /\ UNCHANGED <<calc, parse, node, memoryLimit, orderLimit, textFile, codeFile, c, mask, p1, bit, enc>>

\* rc.FillBuffer()
DecompressFill ==
    /\ pc = "d_fill"
    /\ LET s == FillBuffer(dec, codeFile, rpos)
       IN  /\ dec' = s.rc
           /\ rpos' = s.pos
           /\ hist' = [hist EXCEPT !.eofs = @ + s.eofs,
                                   !.dcalls = Append(@, <<"FillBuffer">>)]
    /\ pc' = "d_loop"
    /\ UNCHANGED <<calc, parse, node, memoryLimit, orderLimit, textFile, codeFile, outFile, textLength,
                   processed, c, mask, p1, bit, ppm, enc>>

\* a loop that also ends when the code file is used up
DecompressLoopToEOF ==
    /\ pc = "d_loop"
    /\ IF U32Of(processed) # textLength /\ rpos < Len(codeFile)
       THEN /\ c' = 0
            /\ mask' = 128
            /\ pc' = "d_predict"
       ELSE /\ pc' = "d_done"
            /\ UNCHANGED <<c, mask>>
    /\ UNCHANGED <<calc, parse, node, memoryLimit, orderLimit, textFile, codeFile, outFile, textLength,
                   processed, p1, bit, ppm, enc, dec, rpos, hist>>

\* for (processed = 0; processed != textLength; ++processed) { c = 0; mask = 1 << 7
DecompressLoop ==
    /\ pc = "d_loop"
    /\ IF U32Of(processed) # textLength
       THEN /\ c' = 0
            /\ mask' = 128
            /\ pc' = "d_predict"
       ELSE /\ pc' = "d_done"
            /\ UNCHANGED <<c, mask>>
    /\ UNCHANGED <<calc, parse, node, memoryLimit, orderLimit, textFile, codeFile, outFile, textLength,
                   processed, p1, bit, ppm, enc, dec, rpos, hist>>

\* U32 p1 = ppm.Predict()
DecompressPredict ==
    /\ pc = "d_predict"
    /\ \E g \in GarbageNodes : p1' = PPMPredict(ppm, g)
    /\ hist' = [hist EXCEPT !.oob = @ \/ ppm.act >= ppm.nodesLimit,
                            !.uninit = @ \/ ppm.act >= ppm.top,
                            !.dcalls = Append(@, <<"Predict", p1'>>)]
    /\ pc' = "d_decode"
    /\ UNCHANGED <<calc, parse, node, memoryLimit, orderLimit, textFile, codeFile, outFile, textLength,
                   processed, c, mask, bit, ppm, enc, dec, rpos>>

\* if (rc.Decode(p1))
DecompressDecode ==
    /\ pc = "d_decode"
    /\ LET r == Decode(dec, p1)
       IN  /\ dec' = r.rc
           /\ bit' = r.bit
           /\ hist' = [hist EXCEPT !.dbits = Append(@, r.bit),
                                   !.dcalls = Append(@, <<"Decode", p1, r.bit>>)]
    /\ pc' = "d_update"
    /\ UNCHANGED <<calc, parse, node, memoryLimit, orderLimit, textFile, codeFile, outFile, textLength,
                   processed, c, mask, p1, ppm, enc, rpos>>

\* ppm.Update<1>(); c |= mask;  or  ppm.Update<0>();
DecompressUpdate ==
    /\ pc = "d_update"
    /\ \E g \in GarbageNodes :
          LET u == PPMUpdate(ppm, bit, g)
          IN  /\ ppm' = u.ppm
              /\ hist' = [Observe(hist, ppm, u) EXCEPT !.dcalls = Append(@, <<"Update", bit>>)]
    /\ c' = IF bit = 1 THEN c + mask ELSE c
    /\ pc' = "d_normalize"
    /\ UNCHANGED <<calc, parse, node, memoryLimit, orderLimit, textFile, codeFile, outFile, textLength,
                   processed, mask, p1, bit, enc, dec, rpos>>

\* rc.Normalize(); mask >>= 1; at mask == 0 the byte is done: putc(c, textFile); ++processed
DecompressNormalize ==
    /\ pc = "d_normalize"
    /\ LET s == DecoderNormalize(dec, codeFile, rpos)
       IN  /\ dec' = s.rc
           /\ rpos' = s.pos
           /\ hist' = [hist EXCEPT !.dshifts = @ + s.shifts,
                                   !.eofs = @ + s.eofs,
                                   !.hang = @ \/ s.hang,
                                   !.dcalls = Append(@, <<"Normalize", mask>>)]
    /\ mask' = mask \div 2
    /\ IF mask' # 0
       THEN pc' = "d_predict" /\ processed' = processed /\ outFile' = outFile
       ELSE pc' = "d_loop" /\ processed' = processed + 1 /\ outFile' = Append(outFile, c % 256)
    /\ UNCHANGED <<calc, parse, node, memoryLimit, orderLimit, textFile, codeFile, textLength,
                   c, p1, bit, ppm, enc>>

\* Writing the initial trie into an arena of fewer than 256 nodes overruns the
\* allocation: undefined behaviour.  The run then either goes on with the
\* nodes where they were written, or the process dies.
Crash ==
    /\ hist.oob
    /\ pc \notin {"c_done", "d_done", "crashed"}
    /\ pc' = "crashed"
    /\ UNCHANGED <<calc, parse, node, memoryLimit, orderLimit, textFile, codeFile, outFile, textLength,
                   processed, c, mask, p1, bit, ppm, enc, dec, rpos, hist>>

\* no computation is being followed
NoCalc == [fn |-> "none", args |-> <<>>, val |-> 0]

\* a char * is the characters from where it points up to the terminator; the
\* null pointer is none of these
NULL == <<"NULL">>

\* getopt has not been called on argv: char * optarg = NULL; int optind = 0;
\* static char * next = NULL; static int end = 0. c is what the last call
\* returned, returned what the calls returned so far, orig the argv passed in
GetoptStart(argv) ==
    [argv |-> argv, orig |-> argv, optind |-> 0, optarg |-> NULL, next |-> NULL,
     end |-> 0, c |-> "", returned |-> <<>>]

\* no command line is being parsed
NoParse == GetoptStart(<<>>)

\* the objects before a driver runs
Idle ==
    /\ outFile = <<>>
    /\ textLength = <<0, 0>>
    /\ processed = 0
    /\ c = 0
    /\ mask = 0
    /\ p1 = 0
    /\ bit = 0
    /\ ppm = NoPPM
    /\ enc = EncoderInit
    /\ dec = DecoderInit
    /\ rpos = 0
    /\ hist = NoHist
    /\ node = InitialNode(0, 0, 0)
    /\ calc = NoCalc
    /\ parse = NoParse

\* crook c TEXT CODE followed by crook d CODE OUT with the same -m and -O, for
\* the options under which PPM::PPM stays inside its allocation
Init ==
    /\ memoryLimit \in MemoryLimits
    /\ orderLimit \in OrderLimits
    /\ textFile \in SeqsUpTo(TextBytes, MaxLen)
    /\ codeFile = <<>>
    /\ pc = "Compress"
    /\ Idle

Next ==
    \/ CompressBegin
    \/ CompressLoop
    \/ CompressPredict
    \/ CompressEncode
    \/ CompressUpdate
    \/ CompressNormalize
    \/ CompressFlush
    \/ DecompressBegin
    \/ DecompressFill
    \/ DecompressLoop
    \/ DecompressPredict
    \/ DecompressDecode
    \/ DecompressUpdate
    \/ DecompressNormalize

Spec == Init /\ [][Next]_vars

\* the same two runs for every -m and -O main accepts (val >= 0)
InitAccepted ==
    /\ memoryLimit \in AcceptedMemoryLimits
    /\ orderLimit \in OrderLimits
    /\ textFile \in SeqsUpTo(TextBytes, MaxLen - 1)
    /\ codeFile = <<>>
    /\ pc = "Compress"
    /\ Idle

NextAccepted == Next \/ Crash

SpecAccepted == InitAccepted /\ [][NextAccepted]_vars

---------------------------------------------------------------------------
(* crook d on an arbitrary file of at least 4 bytes *)

InitDec ==
    /\ memoryLimit \in MemoryLimits
    /\ orderLimit \in OrderLimits
    /\ textFile = <<>>
    /\ \E n \in 0 .. MaxDecLen, body \in SeqsUpTo(CodeBytes, MaxCodeLen) :
          codeFile = <<0, 0, 0, n>> \o body
    /\ pc = "Decompress"
    /\ Idle

NextDec ==
    \/ DecompressBegin
    \/ DecompressFill
    \/ DecompressLoop
    \/ DecompressPredict
    \/ DecompressDecode
    \/ DecompressUpdate
    \/ DecompressNormalize

SpecDec == InitDec /\ [][NextDec]_vars

---------------------------------------------------------------------------
(* The coder alone: the encoder codes an arbitrary sequence of (bit, p1)   *)
(* with 0 < p1 < ARI_P_SCALE and flushes; the decoder then decodes the     *)
(* bytes written with the same p1 sequence.                                *)

\* the number L, a sequence of base-256 digits with the most significant
\* first, after v is added to its i-th digit; a carry out of the first digit
\* makes the number one digit longer
RECURSIVE AddAt(_, _, _)
AddAt(L, i, v) ==
    IF v = 0 THEN L
    ELSE IF i = 0 THEN <<v>> \o L
    ELSE AddAt([L EXCEPT ![i] = (L[i] + v) % 256], i - 1, (L[i] + v) \div 256)

\* L + m for a U32 m
AddBig(L, m) ==
    LET n == Len(L)
    IN  AddAt(AddAt(AddAt(AddAt(L, n, ByteOf(m, 0)), n - 1, ByteOf(m, 1)),
                    n - 2, ByteOf(m, 2)), n - 3, ByteOf(m, 3))

\* L * 256^k
ShiftBig(L, k) == L \o Run(0, k)

\* the lower end of the coding interval after bit b is coded with p1 = p by
\* the encoder e, whose Normalize then shifts k times: mid is added on a 0
ExactAfter(L, e, b, p, k) ==
    ShiftBig(IF b = 0 THEN AddBig(L, MulDiv(e.range, p)) ELSE L, k)

\* rc.Encode<bit>(p); rc.Normalize();
CoderEncode ==
    /\ pc = "k_encode"
    /\ Len(hist.bits) < MaxBits
    /\ \E b \in {0, 1}, p \in Probs :
          LET s == EncoderNormalize(Encode(enc, b, p), codeFile)
          IN  /\ bit' = b
              /\ p1' = p
              /\ enc' = s.rc
              /\ codeFile' = s.file
              /\ hist' = [hist EXCEPT !.probs = Append(@, p),
                                      !.bits = Append(@, b),
                                      !.ranges = Append(@, s.rc.range),
                                      !.eshifts = @ + s.shifts,
                                      !.flushed = @ \o s.flushed,
                                      !.exact = ExactAfter(@, enc, b, p, s.shifts),
                                      !.hang = @ \/ s.hang]
    /\ UNCHANGED <<calc, parse, node, memoryLimit, orderLimit, textFile, outFile, pc, textLength,
                   processed, c, mask, ppm, dec, rpos>>

\* rc.FlushBuffer();
CoderFlush ==
    /\ pc = "k_encode"
    /\ LET s == FlushBuffer(enc, codeFile)
       IN  enc' = s.rc /\ codeFile' = s.file
    /\ pc' = "k_fill"
    /\ UNCHANGED <<calc, parse, node, memoryLimit, orderLimit, textFile, outFile, textLength,
                   processed, c, mask, p1, bit, ppm, dec, rpos, hist>>

\* Decoder rc(codeFile); rc.FillBuffer();
CoderFill ==
    /\ pc = "k_fill"
    /\ LET s == FillBuffer(DecoderInit, codeFile, 0)
       IN  /\ dec' = s.rc
           /\ rpos' = s.pos
           /\ hist' = [hist EXCEPT !.eofs = @ + s.eofs]
    /\ pc' = "k_decode"
    /\ UNCHANGED <<calc, parse, node, memoryLimit, orderLimit, textFile, codeFile, outFile, textLength,
                   processed, c, mask, p1, bit, ppm, enc>>

\* rc.Decode(p); rc.Normalize(); with the p of the next coded bit
CoderDecode ==
    /\ pc = "k_decode"
    /\ Len(hist.dbits) < Len(hist.bits)
    /\ LET p == hist.probs[Len(hist.dbits) + 1]
           r == Decode(dec, p)
           s == DecoderNormalize(r.rc, codeFile, rpos)
       IN  /\ p1' = p
           /\ bit' = r.bit
           /\ dec' = s.rc
           /\ rpos' = s.pos
           /\ hist' = [hist EXCEPT !.dbits = Append(@, r.bit),
                                   !.dshifts = @ + s.shifts,
                                   !.eofs = @ + s.eofs,
                                   !.hang = @ \/ s.hang]
    /\ UNCHANGED <<calc, parse, node, memoryLimit, orderLimit, textFile, codeFile, outFile, pc, textLength,
                   processed, c, mask, ppm, enc>>

InitCoder ==
    /\ memoryLimit = 128
    /\ orderLimit = 4
    /\ textFile = <<>>
    /\ codeFile = <<>>
    /\ pc = "k_encode"
    /\ Idle

NextCoder ==
    \/ CoderEncode
    \/ CoderFlush
    \/ CoderFill
    \/ CoderDecode

SpecCoder == InitCoder /\ [][NextCoder]_vars

---------------------------------------------------------------------------
(* One node alone.  A node of the initial trie is updated with a run of    *)
(* one bit, of any length: the bit that starts every byte of a text of one *)
(* repeated byte.  At any point of the run a node may be grown that        *)
(* inherits from it; that node is then followed through updates of either  *)
(* bit.  Each step is what one turn of the driver's loop does to the       *)
(* active node: Predict, then Update.                                      *)

\* p1 = Predict(); Update<bit>(); on the node of the run, with the bit of the run
NodeRun ==
    /\ pc = "n_run"
    /\ p1' = Fit0(NodePredict(node), PPM_P_BITS, ARI_P_BITS)
    /\ node' = NodeUpdate(node, bit)
    /\ UNCHANGED <<calc, parse, memoryLimit, orderLimit, textFile, codeFile, outFile, pc, textLength,
                   processed, c, mask, bit, ppm, enc, dec, rpos, hist>>

\* *top = Node(ext - nodes, ext) with ext the node of the run
NodeInherit ==
    /\ pc = "n_run"
    /\ node' = InheritedNode(0, node)
    /\ pc' = "n_free"
    /\ UNCHANGED <<calc, parse, memoryLimit, orderLimit, textFile, codeFile, outFile, textLength,
                   processed, c, mask, p1, bit, ppm, enc, dec, rpos, hist>>

\* p1 = Predict(); Update<b>(); on the grown node, with either bit; hist.bits
\* holds the bits the grown node was updated with
NodeFree ==
    /\ pc = "n_free"
    /\ Len(hist.bits) < MaxFree
    /\ \E b \in {0, 1} :
          /\ bit' = b
          /\ p1' = Fit0(NodePredict(node), PPM_P_BITS, ARI_P_BITS)
          /\ node' = NodeUpdate(node, b)
          /\ hist' = [hist EXCEPT !.bits = Append(@, b)]
    /\ UNCHANGED <<calc, parse, memoryLimit, orderLimit, textFile, codeFile, outFile, pc, textLength,
                   processed, c, mask, ppm, enc, dec, rpos>>

InitNode ==
    /\ memoryLimit = 128
    /\ orderLimit = 4
    /\ textFile = <<>>
    /\ codeFile = <<>>
    /\ pc = "n_run"
    /\ outFile = <<>>
    /\ textLength = <<0, 0>>
    /\ processed = 0
    /\ c = 0
    /\ mask = 0
    /\ p1 = 0
    /\ bit \in {0, 1}
    /\ ppm = NoPPM
    /\ enc = EncoderInit
    /\ dec = DecoderInit
    /\ rpos = 0
    /\ hist = NoHist
    /\ node = InitialNode(0, 0, 0)
    /\ calc = NoCalc
    /\ parse = NoParse

NextNode ==
    \/ NodeRun
    \/ NodeInherit
    \/ NodeFree

\* probabilities and counts a ctr may hold: the ends of both ranges, the
\* values the constructors store, and the values next to where the count
\* saturates and where the adjustment becomes 0
AnyP1 == {1, 1087, 1088, PPM_P_START, PPM_P_SCALE - 1088, PPM_P_SCALE - 1}
AnyCnt == {0, PPM_C_INC - 1, PPM_C_INH, PPM_C_START,
           PPM_C_LIMIT - PPM_C_INC - 1, PPM_C_LIMIT - PPM_C_INC, PPM_C_LIMIT - 1}

\* a node whose ctr holds any p1 with 0 < p1 < PPM_P_SCALE and any count
\* below PPM_C_LIMIT
InitAnyNode ==
    /\ memoryLimit = 128
    /\ orderLimit = 4
    /\ textFile = <<>>
    /\ codeFile = <<>>
    /\ pc = "n_run"
    /\ outFile = <<>>
    /\ textLength = <<0, 0>>
    /\ processed = 0
    /\ c = 0
    /\ mask = 0
    /\ p1 = 0
    /\ bit \in {0, 1}
    /\ ppm = NoPPM
    /\ enc = EncoderInit
    /\ dec = DecoderInit
    /\ rpos = 0
    /\ hist = NoHist
    /\ \E p \in AnyP1, n \in AnyCnt :
          node = [ext0 |-> 0, ext1 |-> 0, sfx |-> 0, ctr |-> PackCtr(p, n)]
    /\ calc = NoCalc
    /\ parse = NoParse

\* Node::Update and the inheriting constructor on any such node
SpecAnyNode == InitAnyNode /\ [][NextNode]_vars

\* the model in the two runs of the drivers, and each of its nodes alone
SpecModel == (Init \/ InitNode) /\ [][Next \/ NextNode]_vars

---------------------------------------------------------------------------
(* The free-standing computations, each followed on its own *)

\* the widths Divide is called with: at most 32 - RECIPROCAL_BITS and at most
\* DIVISOR_BITS, so that neither argument is shifted before the multiplication
DivideWidths == {<<3, 2>>, <<3, DIVISOR_BITS>>, <<32 - RECIPROCAL_BITS, 2>>,
                 <<32 - RECIPROCAL_BITS, DIVISOR_BITS>>}

\* the arguments of one call: the asserts of Divide hold, x < (1 << n) and
\* y < (1 << m)
DivideCalls ==
    {a \in ((0 .. 7) \cup {100, 1000, 65535, 2 ^ (32 - RECIPROCAL_BITS) - 1})
            \X {3, 32 - RECIPROCAL_BITS}
            \X ((0 .. 4) \cup {10, 100, DIVISOR_LIMIT - 1})
            \X {2, DIVISOR_BITS} :
        /\ <<a[2], a[4]>> \in DivideWidths
        /\ a[1] < 2 ^ a[2]
        /\ a[3] < 2 ^ a[4]}

\* Divide(x, n, y, m) is called and returns
CallDivide ==
    /\ \E a \in DivideCalls :
          calc' = [fn |-> "Divide", args |-> a, val |-> Divide(a[1], a[2], a[3], a[4])]
    /\ UNCHANGED <<parse, node, memoryLimit, orderLimit, textFile, codeFile, outFile, pc,
                   textLength, processed, c, mask, p1, bit, ppm, enc, dec, rpos, hist>>

\* the values main stores into memoryLimit that fit TLC's integers: val >= 0 is
\* all main asks of strtol's result
ArenaMemoryLimits == {0, 1, 2, 127, 128, 129, 2047, 2048, 2049, 4095, 4096, 4097, 8192}

\* nodesLimit(memoryLimit * (1 << 20) / sizeof(Node)) with a size_t of 32 or 64
\* bits: the int product keeps its low 32 bits, is converted to size_t (sign
\* extended when size_t is wider), divided by sizeof(Node), and the quotient's
\* low 32 bits become the int nodesLimit. The low 32 bits of the product are
\* (m % 4096) * 2^20; it is negative as an int from 2048 * 2^20 on
NodesLimit(m, sizeBits) ==
    LET low == (m % 4096) * (2 ^ 20 \div SizeofNode)
    IN  IF sizeBits = 64 /\ (m % 4096) >= 2048
        THEN low - W16 * (W16 \div SizeofNode)
        ELSE low

\* PPM::PPM computes nodesLimit from memoryLimit; the product overflows int from
\* 2048 on, and the build decides what comes out
CallNodesLimit ==
    /\ \E m \in ArenaMemoryLimits, sizeBits \in {32, 64} :
          calc' = [fn |-> "nodesLimit", args |-> <<m>>, val |-> NodesLimit(m, sizeBits)]
    /\ UNCHANGED <<parse, node, memoryLimit, orderLimit, textFile, codeFile, outFile, pc,
                   textLength, processed, c, mask, p1, bit, ppm, enc, dec, rpos, hist>>

InitCalc ==
    /\ memoryLimit = 128
    /\ orderLimit = 4
    /\ textFile = <<>>
    /\ codeFile = <<>>
    /\ pc = "calc"
    /\ Idle

NextCalc ==
    \/ CallDivide
    \/ CallNodesLimit

\* Divide and the arena size, called with any of their arguments
SpecCalc == InitCalc /\ [][NextCalc]_vars

---------------------------------------------------------------------------
(* getopt, called in a loop until it returns -1 *)

\* the option string main passes: "hVvqm:O:"
OptSpec == <<"h", "V", "v", "q", "m", ":", "O", ":">>

\* the arguments of the command lines: flags alone and bundled, options with
\* an attached argument, a flag bundled before one, an unknown option, an
\* option whose argument is missing, and the non-options "c", "x", "-" and ""
Arguments ==
    {<<"-", "h">>, <<"-", "V", "q">>, <<"-", "m", "1">>, <<"-", "h", "O", "2", "h">>,
     <<"-", "x">>, <<"-", "m">>, <<"c">>, <<"x">>, <<"-">>, <<>>}

\* argv: the program's name and up to MaxArgs arguments
CommandLines ==
    {<<(<<"c", "r", "o", "o", "k">>)>> \o a : a \in SeqsUpTo(Arguments, MaxArgs)}

\* p[i] for a char * p, the terminator included
CharAt(p, i) == IF i < Len(p) THEN p[i + 1] ELSE "\\0"

\* strchr(spec, ch) for a ch that is not the terminator
Strchr(spec, ch) ==
    IF \E i \in 1 .. Len(spec) : spec[i] = ch
    THEN LET i == CHOOSE i \in 1 .. Len(spec) :
                      spec[i] = ch /\ \A j \in 1 .. i - 1 : spec[j] # ch
         IN  SubSeq(spec, i, Len(spec))
    ELSE NULL

\* argv[end][0] != '-' || argv[end][1] == '\0'
NonOption(arg) == CharAt(arg, 0) # "-" \/ CharAt(arg, 1) = "\\0"

\* the elements at first and middle change places
RotateSwap(argv, first, middle, last) ==
    [i \in 1 .. Len(argv) |->
        IF i = first + 1 THEN argv[middle + 1]
        ELSE IF i = middle + 1 THEN argv[first + 1]
        ELSE argv[i]]

\* std::rotate(argv + first, argv + middle, argv + last): the element at middle
\* becomes the one at first
Rotate(argv, first, middle, last) ==
    SubSeq(argv, 1, first) \o SubSeq(argv, middle + 1, last)
        \o SubSeq(argv, first + 1, middle) \o SubSeq(argv, last + 1, Len(argv))

\* while (end != argc && (argv[end][0] != '-' || argv[end][1] == '\0')) ++end
SkipNonOptions(argv, end) ==
    CHOOSE e \in end .. Len(argv) :
        /\ e = Len(argv) \/ ~NonOption(argv[e + 1])
        /\ \A j \in end .. e - 1 : NonOption(argv[j + 1])

\* one call getopt(argc, argv, spec) from the state g
Getopt(g, spec) ==
    LET fresh  == g.next = NULL \/ CharAt(g.next, 0) = "\\0"
        argv   == IF fresh THEN Rotate(g.argv, g.optind, g.end, g.end + 1) ELSE g.argv
        optind == IF fresh THEN g.optind + 1 ELSE g.optind
        end    == IF fresh THEN SkipNonOptions(argv, g.end + 1) ELSE g.end
        moved  == [g EXCEPT !.argv = argv, !.optind = optind, !.end = end]
    IN  IF fresh /\ end = Len(argv)
        THEN [moved EXCEPT !.c = "-1"]
        ELSE LET next == IF fresh THEN Tail(argv[end + 1]) ELSE g.next
                 opt  == Strchr(spec, CharAt(next, 0))
             IN  IF opt = NULL
                 THEN [moved EXCEPT !.optarg = NULL, !.next = Tail(next), !.c = "?"]
                 ELSE IF CharAt(opt, 1) = ":" /\ CharAt(next, 1) = "\\0"
                 THEN [moved EXCEPT !.optarg = NULL, !.next = NULL, !.c = "?"]
                 ELSE IF CharAt(opt, 1) = ":" /\ CharAt(next, 1) # "\\0"
                 THEN [moved EXCEPT !.optarg = Tail(next), !.next = NULL,
                                    !.c = CharAt(opt, 0)]
                 ELSE [moved EXCEPT !.optarg = NULL, !.next = Tail(next),
                                    !.c = CharAt(opt, 0)]

\* while ((c = getopt(argc, argv, "hVvqm:O:")) != -1): one more call
GetoptCall ==
    /\ pc = "getopt"
    /\ parse.c # "-1"
    /\ LET g == Getopt(parse, OptSpec)
       IN  parse' = [g EXCEPT !.returned =
                        IF g.c = "-1" THEN @ ELSE Append(@, g.c)]
    /\ UNCHANGED <<calc, node, memoryLimit, orderLimit, textFile, codeFile, outFile, pc,
                   textLength, processed, c, mask, p1, bit, ppm, enc, dec, rpos, hist>>

\* the process starts with one of the command lines, getopt's variables as
\* they are initialised
InitGetopt ==
    /\ memoryLimit = 128
    /\ orderLimit = 4
    /\ textFile = <<>>
    /\ codeFile = <<>>
    /\ pc = "getopt"
    /\ outFile = <<>>
    /\ textLength = <<0, 0>>
    /\ processed = 0
    /\ c = 0
    /\ mask = 0
    /\ p1 = 0
    /\ bit = 0
    /\ ppm = NoPPM
    /\ enc = EncoderInit
    /\ dec = DecoderInit
    /\ rpos = 0
    /\ hist = NoHist
    /\ node = InitialNode(0, 0, 0)
    /\ calc = NoCalc
    /\ \E argv \in CommandLines : parse = GetoptStart(argv)

NextGetopt == GetoptCall

\* getopt over every command line, called until it returns -1
SpecGetopt == InitGetopt /\ [][NextGetopt]_vars

---------------------------------------------------------------------------
(* Properties *)

\* a PPM object exists
Live == ppm.top > 0

\* the statement about to run follows construction or a PPM::Update
AfterUpdate == pc \in {"c_loop", "c_normalize", "d_fill", "d_normalize"}

\* C1: with the same -m and -O and an arena of at least 256 nodes, what
\* Decompress writes for the output of Compress is the input of Compress,
\* byte for byte.
RoundTrip == pc = "d_done" => outFile = textFile

\* a round trip of a text of full length in which the model grew until the
\* arena was full
RoundTripReached ==
    /\ pc = "d_done"
    /\ Len(textFile) = MaxLen
    /\ ppm.top > 256
    /\ ppm.top = ppm.nodesLimit

\* C2: after construction and after any sequence of updates Predict returns
\* p1 with 0 < p1 < ARI_P_SCALE, and that is the p1 the coder is given.
ProbabilityBounds ==
    /\ Live => \A g \in GarbageNodes :
                  0 < PPMPredict(ppm, g) /\ PPMPredict(ppm, g) < ARI_P_SCALE
    /\ pc \in {"c_encode", "d_decode"} => 0 < p1 /\ p1 < ARI_P_SCALE
    /\ pc \in {"n_run", "n_free"} =>
          /\ p1 < ARI_P_SCALE
          /\ 0 < Fit0(NodePredict(node), PPM_P_BITS, ARI_P_BITS)
          /\ Fit0(NodePredict(node), PPM_P_BITS, ARI_P_BITS) < ARI_P_SCALE

\* the least prediction there is was made, of a grown node whose stored
\* probability had no bit set above the 10 that Predict drops
ProbabilityBoundsReached ==
    /\ pc = "n_free"
    /\ Len(hist.bits) >= 2
    /\ p1 = 1

\* the counter of node n is as Node::Update leaves it, and neither assert of
\* the next Node::Update fails on it
CounterOK(n) ==
    /\ 0 < CtrP1(n.ctr)
    /\ CtrP1(n.ctr) < PPM_P_SCALE
    /\ CtrCnt(n.ctr) < PPM_C_LIMIT
    /\ UpdateAsserts(n.ctr, 0)
    /\ UpdateAsserts(n.ctr, 1)

\* C3: every allocated node has 0 < p1 < PPM_P_SCALE and cnt < PPM_C_LIMIT,
\* and neither assert of Node::Update would fail on it, for either bit.
NodeCounterInvariant ==
    /\ (Live /\ AfterUpdate) => \A i \in 0 .. ppm.top - 1 : CounterOK(ppm.nodes[i])
    /\ CounterOK(node)

\* a grown node that inherited from a node whose count was saturated and
\* whose probability had stopped moving, and was updated since to a
\* probability below 2^10
NodeCounterReached ==
    /\ pc = "n_free"
    /\ hist.bits = <<0, 0>>
    /\ CtrCnt(node.ctr) = PPM_C_INH + 2 * PPM_C_INC
    /\ CtrP1(node.ctr) < 2 ^ (PPM_P_BITS - ARI_P_BITS)

\* C4: for every -m and -O the command line accepts, construction and every
\* Update dereference only node indices below nodesLimit.
ModelStaysInArena == ~hist.oob

\* what the encoder has written: what follows the length prefix
EncoderBytes ==
    IF pc \in {"k_encode", "k_fill", "k_decode"} THEN codeFile
    ELSE SubSeq(codeFile, 5, Len(codeFile))

\* C5: the first byte the encoder writes, byte 4 of the compressed file, is
\* 0x00: no carry reaches it, also when the first renormalisation writes
\* nothing because the top byte of low is 0xFF.
LeadingZero == Len(EncoderBytes) >= 1 => EncoderBytes[1] = 0

\* the first renormalisation wrote nothing, and the held byte has since been
\* written, with the 0xFF byte that had come after it
LeadingZeroReached ==
    /\ Len(hist.flushed) >= 2
    /\ ~hist.flushed[1]
    /\ Len(codeFile) >= 2
    /\ codeFile[1] = 0
    /\ codeFile[2] = 255

\* C6 as stated: an empty input is compressed to exactly 8 bytes.
EmptyInputEight ==
    (pc = "c_done" /\ textFile = <<>>) => codeFile = <<0, 0, 0, 0, 0, 0, 0, 0>>

\* C6: an empty input is compressed to exactly 9 bytes: the four zero bytes
\* of the length, then what flushing the untouched encoder writes, the held
\* byte 0x00 and the four bytes of low, all 0x00.
EmptyInputNine ==
    (pc = "c_done" /\ textFile = <<>>) => codeFile = <<0, 0, 0, 0, 0, 0, 0, 0, 0>>

\* Compress has finished on the empty input
EmptyInputReached == pc = "c_done" /\ textFile = <<>> /\ Len(codeFile) = 9

\* the four bytes of n, most significant first
BigEndian(n) ==
    <<(n \div 2 ^ 24) % 256, (n \div 2 ^ 16) % 256, (n \div 2 ^ 8) % 256, n % 256>>

\* Decompress has read the length
LengthRead == pc \in {"d_fill", "d_loop", "d_predict", "d_decode", "d_update",
                      "d_normalize", "d_done"}

\* C7: the first four bytes of the compressed file are the input length N,
\* most significant byte first; Decompress reads N back from them and writes
\* exactly N bytes.
LengthPreserved ==
    /\ Len(codeFile) >= 4 => SubSeq(codeFile, 1, 4) = BigEndian(Len(textFile))
    /\ LengthRead => textLength = U32Of(Len(textFile))
    /\ pc = "d_done" => Len(outFile) = Len(textFile)

\* Decompress has written all of a text of full length
LengthPreservedReached ==
    /\ pc = "d_done"
    /\ Len(textFile) = MaxLen
    /\ codeFile[4] = MaxLen
    /\ Len(outFile) = MaxLen

\* C8: no Predict and no Update reads a node at index >= top, so that what
\* they return and leave behind does not depend on what the unwritten part
\* of the arena holds: a run is a function of the input and the options.
NoUninitializedRead ==
    /\ ~hist.uninit
    /\ pc \in {"c_predict", "d_predict"} =>
          /\ ppm.act < ppm.top
          /\ \A g1, g2 \in GarbageNodes : PPMPredict(ppm, g1) = PPMPredict(ppm, g2)
    /\ pc \in {"c_update", "d_update"} =>
          \A g1, g2 \in GarbageNodes :
              /\ PPMUpdate(ppm, bit, g1) = PPMUpdate(ppm, bit, g2)
              /\ \A i \in PPMUpdate(ppm, bit, g1).read : i < ppm.top

\* Predict is about to read the node written last, the one next to the
\* unwritten part of the arena
NoUninitializedReadReached ==
    /\ pc = "d_predict"
    /\ ppm.top > 256
    /\ ppm.act = ppm.top - 1

\* the length N in the prefix of the code file
PrefixLength == codeFile[4]

\* the statements of Decompress: each runs whenever pc is at it
AtStatement == pc \in {"Decompress", "d_fill", "d_loop", "d_predict", "d_decode",
                       "d_update", "d_normalize"}

\* the bits of the byte that come after the one mask selects
BitsAfter == CHOOSE k \in 0 .. 7 : 2 ^ k = mask

\* the statements Decompress has yet to run: 3 around the loop, and for each
\* byte 1 for the loop head and 4 for each of its 8 bits
Remaining ==
    CASE pc = "Decompress"  -> 33 * PrefixLength + 3
      [] pc = "d_fill"      -> 33 * PrefixLength + 2
      [] pc = "d_loop"      -> 33 * (PrefixLength - processed) + 1
      [] pc = "d_predict"   -> 33 * (PrefixLength - processed - 1) + 1 + 4 * BitsAfter + 4
      [] pc = "d_decode"    -> 33 * (PrefixLength - processed - 1) + 1 + 4 * BitsAfter + 3
      [] pc = "d_update"    -> 33 * (PrefixLength - processed - 1) + 1 + 4 * BitsAfter + 2
      [] pc = "d_normalize" -> 33 * (PrefixLength - processed - 1) + 1 + 4 * BitsAfter + 1
      [] OTHER              -> 0

\* C9: for any code file of at least 4 bytes, damaged or cut short,
\* Decompress ends, having written exactly the N bytes its prefix asks for:
\* it stops nowhere but at its end, every statement it runs leaves fewer to
\* run, no loop inside a statement fails to end, and the model stays inside
\* its arena and its written nodes and predicts within (0, ARI_P_SCALE).
MalformedInput ==
    /\ [](pc = "d_done" => Len(outFile) = PrefixLength)
    /\ [](pc = "d_done" \/ AtStatement)
    /\ [](Remaining >= 0)
    /\ [][Remaining' < Remaining]_vars
    /\ [](~hist.hang /\ ~hist.oob /\ ~hist.uninit)
    /\ [](pc = "d_decode" => (0 < p1 /\ p1 < ARI_P_SCALE))

\* Decompress has ended on a code file that stops before the decoder has read
\* all it reads: getc returned EOF, a whole byte was written all the same
MalformedInputReached ==
    /\ pc = "d_done"
    /\ hist.eofs > 0
    /\ PrefixLength = MaxDecLen
    /\ Len(outFile) = MaxDecLen

\* C10: after the i-th Decode/Normalize pair the decoder's range is the
\* encoder's range after its i-th Encode/Normalize pair.
CoderLockStep ==
    pc = "k_decode" =>
        dec.range = IF hist.dbits = <<>> THEN MaxU32 ELSE hist.ranges[Len(hist.dbits)]

\* the decoder has decoded every bit, both coders having renormalised
CoderLockStepReached ==
    /\ pc = "k_decode"
    /\ Len(hist.dbits) = MaxBits
    /\ hist.eshifts >= 2
    /\ hist.dshifts = hist.eshifts

\* C11: with an arena of at least 256 nodes, 256 <= top <= nodesLimit always;
\* no Update lowers top or drops a node; and once top = nodesLimit every
\* Update, of either bit, takes the branch that does not grow (act = ext,
\* order + 1) and leaves a model that predicts within (0, ARI_P_SCALE).
ArenaCap ==
    Live =>
        /\ 256 <= ppm.top
        /\ ppm.top <= ppm.nodesLimit
        /\ AfterUpdate =>
              \A b \in {0, 1}, g \in GarbageNodes :
                  LET u == PPMUpdate(ppm, b, g)
                  IN  /\ u.ppm.top >= ppm.top
                      /\ \A i \in 0 .. ppm.top - 1 : i \in DOMAIN u.ppm.nodes
                      /\ ppm.top = ppm.nodesLimit =>
                            /\ ~u.grew
                            /\ u.ppm.top = ppm.top
                            /\ u.ppm.act = Ext(u.ppm.nodes[u.stop], b)
                            /\ u.ppm.order = ppm.order - 8 * u.hops + 1
                            /\ 0 < PPMPredict(u.ppm, g)
                            /\ PPMPredict(u.ppm, g) < ARI_P_SCALE

\* the arena is full of grown nodes, and the Update about to run walks to a
\* node from which it would grow were there room
ArenaCapReached ==
    /\ pc = "c_update"
    /\ ppm.top > 256
    /\ ppm.top = ppm.nodesLimit
    /\ \E g \in GarbageNodes :
          LET u == PPMUpdate(ppm, bit, g)
          IN  /\ u.hops > 0
              /\ ppm.order - 8 * u.hops + 9 <= ppm.orderLimitBits
              /\ ~u.grew

\* what the calls cs made for the bits say, as the driver's loop demands: the
\* i-th call is, in turn, Predict giving some p1, the coder's call with that
\* p1 giving or taking a bit, Update with that bit, and Normalize, after
\* which the mask moves on; masks go from 0x80 down to 0x01 in each byte
InOrder(cs, coder) ==
    \A i \in 1 .. Len(cs) :
        LET k == (i - 1) \div 4
        IN  CASE (i - 1) % 4 = 0 -> Len(cs[i]) = 2 /\ cs[i][1] = "Predict"
              [] (i - 1) % 4 = 1 -> /\ Len(cs[i]) = 3
                                    /\ cs[i][1] = coder
                                    /\ cs[i][2] = cs[i - 1][2]
              [] (i - 1) % 4 = 2 -> cs[i] = <<"Update", cs[i - 1][3]>>
              [] OTHER           -> cs[i] = <<"Normalize", 2 ^ (7 - (k % 8))>>

\* the bit of the text that the k-th Encode (from 0) is given
TextBit(k) == BitOf(textFile[k \div 8 + 1], 2 ^ (7 - (k % 8)))

\* C12: for each bit both drivers call Predict, Encode or Decode with the p1
\* Predict gave, Update with the bit coded, and Normalize once, in this
\* order; the bits of a byte go from mask 0x80 down to 0x01; FillBuffer is
\* called once, before anything else, and FlushBuffer once, after the last
\* bit.
DriverProtocol ==
    /\ IF pc = "c_done" \/ hist.dcalls # <<>> \/ pc = "d_fill"
       THEN /\ Len(hist.calls) = 32 * Len(textFile) + 1
            /\ hist.calls[Len(hist.calls)] = <<"FlushBuffer">>
            /\ InOrder(SubSeq(hist.calls, 1, Len(hist.calls) - 1), "Encode")
       ELSE InOrder(hist.calls, "Encode")
    /\ \A i \in 1 .. Len(hist.calls) :
          (i % 4 = 2 /\ i < 32 * Len(textFile)) => hist.calls[i][3] = TextBit((i - 1) \div 4)
    /\ pc \in {"d_loop", "d_predict", "d_decode", "d_update", "d_normalize", "d_done"} =>
          /\ hist.dcalls # <<>>
          /\ hist.dcalls[1] = <<"FillBuffer">>
          /\ InOrder(Tail(hist.dcalls), "Decode")
    /\ pc = "d_fill" => hist.dcalls = <<>>
    /\ pc = "d_done" => Len(hist.dcalls) = 1 + 32 * Len(textFile)
    /\ pc = "c_predict" => Len(hist.calls) % 4 = 0
    /\ pc = "c_encode" => Len(hist.calls) % 4 = 1
    /\ pc = "c_update" => Len(hist.calls) % 4 = 2
    /\ pc = "c_normalize" => Len(hist.calls) % 4 = 3

\* both drivers have run to their end on a text of full length
DriverProtocolReached ==
    /\ pc = "d_done"
    /\ Len(textFile) = MaxLen
    /\ Len(hist.calls) = 32 * MaxLen + 1
    /\ Len(hist.dcalls) = 32 * MaxLen + 1
    /\ hist.dcalls[Len(hist.dcalls)] = <<"Normalize", 1>>

\* the calls the running driver has made
Calls == IF pc \in {"d_fill", "d_loop", "d_predict", "d_decode", "d_update",
                    "d_normalize", "d_done"}
         THEN hist.dcalls ELSE hist.calls

\* the bits the model has consumed: those of its Update calls
Consumed ==
    LET ups == SelectSeq(Calls, LAMBDA x : x[1] = "Update")
    IN  [i \in 1 .. Len(ups) |-> ups[i][2]]

\* the node reached from node n along the bits str[i], str[i + 1], ...; 0 if
\* an edge on the way is missing
RECURSIVE Follow(_, _, _)
Follow(n, str, i) ==
    IF n = 0 \/ i > Len(str) THEN n
    ELSE Follow(Ext(ppm.nodes[n], str[i]), str, i + 1)

\* the node whose context string is str, node 1 having the empty one
NodeOf(str) == Follow(1, str, 1)

\* the last k whole bytes consumed and the bits of the current partial byte
SuffixOf(k) ==
    SubSeq(Consumed, Len(Consumed) - (Len(Consumed) % 8) - 8 * k + 1, Len(Consumed))

\* C13: with an arena of at least 256 nodes, after construction and after
\* every Update the active node is the node of the last k whole bytes and
\* the bits of the partial byte, for k = order / 8, and no node is the node
\* of such a suffix with more whole bytes.
LongestMatch ==
    Live =>
        /\ ppm.order \div 8 <= Len(Consumed) \div 8
        /\ ppm.act = NodeOf(SuffixOf(ppm.order \div 8))
        /\ \A k \in ppm.order \div 8 + 1 .. Len(Consumed) \div 8 : NodeOf(SuffixOf(k)) = 0

\* three bytes consumed, the active node that of the last two: the node of
\* all three was refused by the order limit
LongestMatchReached ==
    /\ Live
    /\ Len(Consumed) = 24
    /\ ppm.order = 16
    /\ ppm.act >= 256
    /\ NodeOf(SuffixOf(3)) = 0

\* C14: in every state of the model and for either bit the walk of Update
\* ends: the sfx of a grown node is a node of lower index, the sfx of an
\* initial node is the root, and both ext of the root are set; the walk
\* visits at most orderLimit + 2 nodes.
WalkTerminates ==
    Live =>
        /\ ppm.nodes[0].ext0 # 0
        /\ ppm.nodes[0].ext1 # 0
        /\ \A i \in 0 .. 255 : ppm.nodes[i].sfx = 0
        /\ \A i \in 256 .. ppm.top - 1 : ppm.nodes[i].sfx < i
        /\ AfterUpdate =>
              \A b \in {0, 1}, g \in GarbageNodes :
                  LET u == PPMUpdate(ppm, b, g)
                  IN  /\ ~u.hang
                      /\ u.hops + 1 <= orderLimit + 2

\* the Update about to run walks from a node of the highest order, over one
\* node of each lower order, to the root: orderLimit + 2 nodes
WalkTerminatesReached ==
    /\ pc = "c_update"
    /\ orderLimit = 2
    /\ ppm.order = ppm.orderLimitBits
    /\ \E g \in GarbageNodes :
          LET u == PPMUpdate(ppm, bit, g)
          IN  u.hops = 3 /\ u.stop = 0 /\ ~u.hang

\* C15: an Update leaves every ext that is not 0 as it is; the one ext it
\* may write is that of lst for the bit coded, when it grows: lst is not the
\* node where the walk stopped but the node walked before it, whose ext for
\* that bit was 0.
OwnerProtection ==
    (Live /\ AfterUpdate) =>
        \A b \in {0, 1}, g \in GarbageNodes :
            LET u == PPMUpdate(ppm, b, g)
            IN  \A i \in 0 .. ppm.top - 1 : \A e \in {0, 1} :
                    /\ Ext(ppm.nodes[i], e) # 0 =>
                          Ext(u.ppm.nodes[i], e) = Ext(ppm.nodes[i], e)
                    /\ Ext(u.ppm.nodes[i], e) # Ext(ppm.nodes[i], e) =>
                          /\ u.grew
                          /\ e = b
                          /\ i = u.lst
                          /\ i # u.stop
                          /\ ppm.nodes[i].sfx = u.stop
                          /\ Ext(u.ppm.nodes[i], e) = ppm.top

\* the Update about to run grows the model from a node whose ext for the
\* other bit is set
OwnerProtectionReached ==
    /\ pc = "c_update"
    /\ \E g \in GarbageNodes :
          LET u == PPMUpdate(ppm, bit, g)
          IN  /\ u.grew
              /\ Ext(ppm.nodes[u.lst], 1 - bit) # 0
              /\ Ext(ppm.nodes[u.lst], bit) = 0
              /\ Ext(u.ppm.nodes[u.lst], bit) = ppm.top

\* C16: in every state every ext of an allocated node i is 0 or an index j
\* with i < j < top (both ext of the root are 1), every node i >= 256 has
\* 1 <= sfx < i, and act and every stored link name an allocated node.
LinkStructure ==
    Live =>
        /\ ppm.act < ppm.top
        /\ DOMAIN ppm.nodes = 0 .. ppm.top - 1
        /\ ppm.nodes[0].ext0 = 1
        /\ ppm.nodes[0].ext1 = 1
        /\ \A i \in 0 .. ppm.top - 1 : \A e \in {0, 1} :
               \/ Ext(ppm.nodes[i], e) = 0
               \/ i < Ext(ppm.nodes[i], e) /\ Ext(ppm.nodes[i], e) < ppm.top
        /\ \A i \in 0 .. ppm.top - 1 : ppm.nodes[i].sfx < ppm.top
        /\ \A i \in 256 .. ppm.top - 1 :
               1 <= ppm.nodes[i].sfx /\ ppm.nodes[i].sfx < i

\* a grown node hangs on a grown node and has a grown node as its suffix
LinkStructureReached ==
    /\ Live
    /\ \E i \in 256 .. ppm.top - 1 : \E j \in 256 .. ppm.top - 1 : \E e \in {0, 1} :
          /\ Ext(ppm.nodes[i], e) = j
          /\ i < j
          /\ ppm.nodes[j].sfx >= 256
          /\ ppm.nodes[j].sfx < j

\* the Update of bit b had the arena been full: the same walk, no growth
Refused(b, g) == PPMUpdate([ppm EXCEPT !.nodesLimit = ppm.top], b, g)

\* C17: when an Update grows the model, the Predict that follows returns
\* what it would have returned had the model not grown, Fit0 of the
\* probability stored in nodes[ext]; the count of the new node is 48 whatever
\* the count of nodes[ext]; the Update leaves nodes[ext] as it was.
InformationInheritance ==
    (Live /\ AfterUpdate) =>
        \A b \in {0, 1}, g \in GarbageNodes :
            LET u   == PPMUpdate(ppm, b, g)
                v   == Refused(b, g)
                new == u.ppm.nodes[ppm.top]
                ext == new.sfx
            IN  u.grew =>
                    /\ ~v.grew
                    /\ v.ppm.act = ext
                    /\ u.ppm.act = ppm.top
                    /\ PPMPredict(u.ppm, g) = PPMPredict(v.ppm, g)
                    /\ PPMPredict(u.ppm, g)
                           = Fit0(CtrP1(ppm.nodes[ext].ctr), PPM_P_BITS, ARI_P_BITS)
                    /\ CtrP1(new.ctr) = CtrP1(ppm.nodes[ext].ctr)
                    /\ CtrCnt(new.ctr) = 48
                    /\ u.ppm.nodes[ext] = ppm.nodes[ext]

\* the Update about to run grows the model from a node whose count is not 48
\* and whose probability is not the initial one
InformationInheritanceReached ==
    /\ pc = "c_update"
    /\ \E g \in GarbageNodes :
          LET u   == PPMUpdate(ppm, bit, g)
              ext == u.ppm.nodes[ppm.top].sfx
          IN  /\ u.grew
              /\ CtrCnt(ppm.nodes[ext].ctr) \notin {48, PPM_C_START}
              /\ CtrP1(ppm.nodes[ext].ctr) # PPM_P_START
              /\ CtrCnt(u.ppm.nodes[ppm.top].ctr) = 48
              /\ u.ppm.nodes[ext] = ppm.nodes[ext]

\* C18: after k calls of Update order is congruent to k modulo 8; in a call
\* each hop of the walk takes 8 from order and the call ends by adding 9 when
\* it grows the model and 1 when it does not.
OrderTracksBits ==
    Live =>
        /\ ppm.order % 8 = Len(Consumed) % 8
        /\ AfterUpdate =>
              \A b \in {0, 1}, g \in GarbageNodes :
                  LET u == PPMUpdate(ppm, b, g)
                  IN  u.ppm.order = ppm.order - 8 * u.hops + (IF u.grew THEN 9 ELSE 1)

\* after more than two bytes the model is at an order below the number of
\* bits consumed, and the Update about to run hops twice and grows
OrderTracksBitsReached ==
    /\ pc = "c_update"
    /\ Len(Consumed) > 16
    /\ ppm.order < Len(Consumed)
    /\ ppm.order % 8 = Len(Consumed) % 8
    /\ \E g \in GarbageNodes :
          LET u == PPMUpdate(ppm, bit, g)
          IN  u.hops = 2 /\ u.grew /\ u.ppm.order = ppm.order - 7

\* C19: after construction and after every Update 0 <= order <=
\* orderLimitBits = 8 * orderLimit + 7, whichever branch ended the Update, and
\* act is not the root; inside an Update order goes below 0 only to -1, and
\* exactly when the walk has reached the root.
OrderBounds ==
    Live =>
        /\ ppm.orderLimitBits = 8 * orderLimit + 7
        /\ 0 <= ppm.order
        /\ ppm.order <= ppm.orderLimitBits
        /\ ppm.act # 0
        /\ AfterUpdate =>
              \A b \in {0, 1}, g \in GarbageNodes :
                  LET u == PPMUpdate(ppm, b, g)
                      o == ppm.order - 8 * u.hops
                  IN  /\ o >= 0 - 1
                      /\ (o = 0 - 1) <=> (u.stop = 0)
                      /\ 0 <= u.ppm.order
                      /\ u.ppm.order <= ppm.orderLimitBits
                      /\ u.ppm.act # 0

\* the arena is full, the order limit would allow growth, and the Update
\* about to run walks to the root and ends at order 0 without growing
OrderBoundsReached ==
    /\ pc = "c_update"
    /\ ppm.top = ppm.nodesLimit
    /\ ppm.top > 256
    /\ orderLimit >= 1
    /\ \E g \in GarbageNodes :
          LET u == PPMUpdate(ppm, bit, g)
          IN  /\ u.stop = 0
              /\ u.hops >= 1
              /\ ppm.order - 8 * u.hops = 0 - 1
              /\ ~u.grew
              /\ u.ppm.order = 0

\* C20: with orderLimit = 0 no Update allocates a node or writes an ext:
\* top stays 256, the links are those of the constructor, act is one of the
\* nodes 1 .. 255, and it is node 1 after every 8th bit.
OrderZeroNoGrowth ==
    (Live /\ orderLimit = 0) =>
        /\ ppm.top = 256
        /\ \A i \in 0 .. 255 :
               /\ ppm.nodes[i].ext0 = InitialNodes[i].ext0
               /\ ppm.nodes[i].ext1 = InitialNodes[i].ext1
               /\ ppm.nodes[i].sfx = InitialNodes[i].sfx
        /\ ppm.act \in 1 .. 255
        /\ ppm.order = Len(Consumed) % 8
        /\ (Len(Consumed) % 8 = 0) => (ppm.act = 1)
        /\ AfterUpdate =>
              \A b \in {0, 1}, g \in GarbageNodes :
                  LET u == PPMUpdate(ppm, b, g)
                  IN  /\ ~u.grew
                      /\ u.ppm.top = 256
                      /\ \A i \in 0 .. 255 : \A e \in {0, 1} :
                             Ext(u.ppm.nodes[i], e) = Ext(ppm.nodes[i], e)

\* two bytes have gone through a model of order 0 in an arena with room for
\* more nodes: the last Update came from a leaf and the model is at node 1
OrderZeroNoGrowthReached ==
    /\ pc = "c_normalize"
    /\ orderLimit = 0
    /\ ppm.top < ppm.nodesLimit
    /\ Len(Consumed) = 16
    /\ ppm.act = 1
    /\ ppm.top = 256
    /\ ppm.nodes # InitialNodes

\* the nodes from n along sfx, k hops far: n, nodes[n].sfx, ...
RECURSIVE Chain(_, _)
Chain(n, k) == IF k = 0 THEN <<n>> ELSE <<n>> \o Chain(ppm.nodes[n].sfx, k - 1)

UpdateDirection ==
    (pc \in {"n_run", "n_free"} /\ 0 < CtrP1(node.ctr) /\ CtrP1(node.ctr) < PPM_P_SCALE
        /\ CtrCnt(node.ctr) < PPM_C_LIMIT) =>
        /\ UpdateP1(node.ctr, 1) >= CtrP1(node.ctr)
        /\ UpdateP1(node.ctr, 1) < PPM_P_SCALE
        /\ UpdateP1(node.ctr, 0) <= CtrP1(node.ctr)
        /\ UpdateP1(node.ctr, 0) > 0
        /\ CtrP1(NodeUpdate(node, 1).ctr) >= CtrP1(node.ctr)
        /\ CtrP1(NodeUpdate(node, 0).ctr) <= CtrP1(node.ctr)
        /\ \A b \in {0, 1} :
               /\ CtrCnt(NodeUpdate(node, b).ctr) >= CtrCnt(node.ctr)
               /\ CtrCnt(node.ctr) = PPM_C_LIMIT - 1 =>
                      CtrCnt(NodeUpdate(node, b).ctr) = PPM_C_LIMIT - 1

\* a node updated with 1 bits whose count has reached 1023 and whose
\* probability is above the last prediction and still moves, either way
UpdateDirectionReached ==
    /\ pc = "n_run"
    /\ bit = 1
    /\ p1 > 0
    /\ CtrCnt(node.ctr) = PPM_C_LIMIT - 1
    /\ Fit0(NodePredict(node), PPM_P_BITS, ARI_P_BITS) > p1
    /\ CtrP1(NodeUpdate(node, 1).ctr) > CtrP1(node.ctr)
    /\ CtrP1(NodeUpdate(node, 0).ctr) < CtrP1(node.ctr)
    /\ CtrCnt(NodeUpdate(node, 0).ctr) = PPM_C_LIMIT - 1

\* C23: the bytes the encoder has written from construction through
\* FlushBuffer are 5 + k bytes, k the number of renormalisation shifts, and
\* read as one big-endian number they are the exact lower end of the coding
\* interval: the sum of the mids added, each times 256 per later shift.  The
\* same holds of what FlushBuffer would write after any number of bits.
CarryCorrect ==
    /\ pc \in {"k_fill", "k_decode"} =>
          /\ Len(codeFile) = 5 + hist.eshifts
          /\ codeFile = hist.exact
    /\ pc = "k_encode" =>
          /\ Len(hist.exact) = 5 + hist.eshifts
          /\ FlushBuffer(enc, codeFile).file = hist.exact

\* the encoder has flushed, and a carry went through a byte that was held
\* back as 0xFF: it was written as 0x00
CarryCorrectReached ==
    /\ pc = "k_fill"
    /\ codeFile = hist.exact
    /\ \E i \in 1 .. Len(hist.flushed) :
          /\ ~hist.flushed[i]
          /\ codeFile[i + 1] = 0

\* C24: low < 2^33 in every state of the encoder, so hi32 is 0 or 1, also
\* between Encode and Normalize; low < 2^32 after a Normalize that shifted;
\* a carry that an Encode left in low is still there, and is still one, after
\* a later Encode, and after its Normalize if that does not shift.
DeferredCarryOneBit ==
    pc = "k_encode" =>
        /\ enc.low.hi \in {0, 1}
        /\ \A b \in {0, 1}, p \in Probs :
               LET e == Encode(enc, b, p)
                   s == EncoderNormalize(e, codeFile)
               IN  /\ e.low.hi \in {0, 1}
                   /\ enc.low.hi = 1 => e.low.hi = 1
                   /\ s.shifts >= 1 => s.rc.low.hi = 0
                   /\ s.shifts = 0 => s.rc.low = e.low

\* an Encode has left a carry in low and no shift followed; the next Encode
\* of a 0 adds its mid to low and does not shift either
DeferredCarryReached ==
    /\ pc = "k_encode"
    /\ enc.low.hi = 1
    /\ \E p \in Probs :
          LET e == Encode(enc, 0, p)
          IN  /\ e.low.lo # enc.low.lo
              /\ e.low.hi = 1
              /\ EncoderNormalize(e, codeFile).shifts = 0

\* C25: whenever the encoder writes the held byte, in Normalize or in
\* FlushBuffer, fluxFst + hi32 <= 0xFF.  It holds of every state a write can
\* start from: the state FlushBuffer finds, and the state Normalize finds
\* after Encode (inside Normalize hi32 is 0 after the first shift).
HeldByteNoOverflow ==
    pc = "k_encode" =>
        /\ enc.fluxFst \in 0 .. 255
        /\ enc.fluxFst + enc.low.hi <= 255
        /\ \A b \in {0, 1}, p \in Probs :
               LET e == Encode(enc, b, p)
                   s == EncoderNormalize(e, codeFile)
               IN  /\ e.fluxFst + e.low.hi <= 255
                   /\ s.rc.fluxFst + s.rc.low.hi <= 255

\* FlushBuffer has written a held byte of 0xFE with a carry, as 0xFF
HeldByteReached ==
    /\ pc = "k_fill"
    /\ enc.fluxFst = 254
    /\ enc.low.hi = 1
    /\ hist.flushed # <<>>
    /\ hist.flushed[Len(hist.flushed)]
    /\ codeFile[Len(codeFile) - 4] = 255

\* the number of iterations at the end of f that wrote nothing
RECURSIVE Deferred(_)
Deferred(f) ==
    IF f = <<>> \/ f[Len(f)] THEN 0 ELSE 1 + Deferred(SubSeq(f, 1, Len(f) - 1))

\* C26: between the operations of the encoder fluxLen is the number of bytes
\* taken by renormalisation and not yet written: it is at least 1 until
\* FlushBuffer, it is 1 after an iteration that wrote the pending bytes and
\* one more after each iteration that did not, and the bytes written plus
\* fluxLen are 1 + the number of shifts.
PendingAccounting ==
    /\ pc = "k_encode" =>
          /\ enc.fluxLen >= 1
          /\ enc.fluxLen = 1 + Deferred(hist.flushed)
          /\ Len(codeFile) + enc.fluxLen = 1 + hist.eshifts
          /\ Len(hist.flushed) = hist.eshifts
          /\ \A b \in {0, 1}, p \in Probs :
                LET s == EncoderNormalize(Encode(enc, b, p), codeFile)
                IN  /\ s.rc.fluxLen >= 1
                    /\ s.rc.fluxLen = 1 + Deferred(hist.flushed \o s.flushed)
                    /\ Len(s.file) + s.rc.fluxLen = 1 + hist.eshifts + s.shifts
    /\ pc \in {"k_fill", "k_decode"} => Len(codeFile) = 5 + hist.eshifts

\* bytes have been written, and the held byte and two deferred 0xFF bytes
\* are pending
PendingAccountingReached ==
    /\ pc = "k_encode"
    /\ Len(codeFile) >= 2
    /\ enc.fluxLen = 3
    /\ hist.eshifts = Len(codeFile) + 2

\* 2^24 <= r < 2^32 for a U32 r
Normalized(r) == r[1] >= 256 /\ r[1] < W16 /\ r[2] \in 0 .. W16 - 1

\* mid = (range / ARI_P_SCALE) * p1 has 0 < mid < range
MidInside(r, p) == Lt32(<<0, 0>>, MulDiv(r, p)) /\ Lt32(MulDiv(r, p), r)

\* C27: a Normalize that follows an Encode or Decode with 0 < p1 <
\* ARI_P_SCALE ends after at most two shifts and leaves 2^24 <= range < 2^32;
\* range is never 0, and 0 < mid < range.
RenormalisationBounded ==
    /\ ~hist.hang
    /\ pc = "k_encode" =>
          /\ Normalized(enc.range)
          /\ \A b \in {0, 1}, p \in Probs :
                LET e == Encode(enc, b, p)
                    s == EncoderNormalize(e, codeFile)
                IN  /\ MidInside(enc.range, p)
                    /\ e.range # <<0, 0>>
                    /\ ~s.hang
                    /\ s.shifts <= 2
                    /\ Normalized(s.rc.range)
    /\ pc = "k_decode" =>
          /\ Normalized(dec.range)
          /\ \A p \in Probs :
                LET r == Decode(dec, p)
                    s == DecoderNormalize(r.rc, codeFile, rpos)
                IN  /\ MidInside(dec.range, p)
                    /\ r.rc.range # <<0, 0>>
                    /\ ~s.hang
                    /\ s.shifts <= 2
                    /\ Normalized(s.rc.range)

\* two bits have been coded and decoded, one of them with two shifts in the
\* encoder and in the decoder
RenormalisationReached ==
    /\ pc = "k_decode"
    /\ Len(hist.bits) = 2
    /\ Len(hist.dbits) = 2
    /\ hist.eshifts = 3
    /\ hist.dshifts = 3
    /\ Normalized(dec.range)

\* C28: when the encoder has coded (bit_i, p_i) with Encode and Normalize
\* for each i and then flushed, a decoder that fills its buffer once and
\* then calls Decode(p_i) and Normalize on the bytes written returns bit_i at
\* every step i.
CoderRoundTrip ==
    pc = "k_decode" =>
        /\ Len(hist.dbits) <= Len(hist.bits)
        /\ \A i \in 1 .. Len(hist.dbits) : hist.dbits[i] = hist.bits[i]
        /\ Len(hist.dbits) < Len(hist.bits) =>
              Decode(dec, hist.probs[Len(hist.dbits) + 1]).bit = hist.bits[Len(hist.dbits) + 1]

\* the decoder has returned all of a sequence of MaxBits bits, 0s and 1s
\* coded with three different probabilities, through whose bytes a carry
\* went
CoderRoundTripReached ==
    /\ pc = "k_decode"
    /\ Len(hist.bits) = MaxBits
    /\ hist.dbits = hist.bits
    /\ {hist.bits[i] : i \in 1 .. MaxBits} = {0, 1}
    /\ {hist.probs[i] : i \in 1 .. MaxBits} = Probs
    /\ \E i \in 1 .. Len(hist.flushed) : ~hist.flushed[i] /\ codeFile[i + 1] = 0

\* C29: when the decoder decodes what the encoder wrote, with the same
\* probabilities, cml < range after FillBuffer, after every Decode and after
\* every Normalize; hence every cml << 8 drops a top byte of 0: in Normalize
\* cml < range <= 0xFFFFFF before each shift, and the byte FillBuffer drops
\* is the first byte of the stream, 0.
DecoderWindow ==
    pc = "k_decode" =>
        /\ Lt32(dec.cml, dec.range)
        /\ codeFile[1] = 0
        /\ Len(hist.dbits) < Len(hist.bits) =>
              LET r == Decode(dec, hist.probs[Len(hist.dbits) + 1])
                  s == DecoderNormalize(r.rc, codeFile, rpos)
                  m == DecoderLoop([rc |-> r.rc, pos |-> rpos, eofs |-> 0, shifts |-> 0,
                                    hang |-> FALSE], codeFile, 1)
              IN  /\ Lt32(r.rc.cml, r.rc.range)
                  /\ Lt32(m.rc.cml, m.rc.range)
                  /\ Lt32(s.rc.cml, s.rc.range)
                  /\ s.shifts >= 1 => ByteOf(r.rc.cml, 3) = 0
                  /\ s.shifts >= 2 => ByteOf(m.rc.cml, 3) = 0

\* in the middle of a stream, after two shifts or more, cml is 2^24 or more
\* and below range
DecoderWindowReached ==
    /\ pc = "k_decode"
    /\ Len(hist.dbits) >= 1
    /\ Len(hist.dbits) < Len(hist.bits)
    /\ hist.dshifts >= 2
    /\ dec.cml[1] >= 256
    /\ Lt32(dec.cml, dec.range)

\* C30: the file Compress writes has exactly 9 + k bytes, k the number of
\* renormalisation shifts of the encoder: 4 of the length, the leading 0, k
\* written by renormalisation, 4 by FlushBuffer.  Decompress, with the same
\* options, reads exactly these: 4 for the length, 5 in FillBuffer, k in
\* Normalize; no getc is called at the end of the file.
NoOverRead ==
    /\ hist.eofs = 0
    /\ rpos <= Len(codeFile)
    /\ pc \in {"c_loop", "c_predict", "c_encode", "c_update", "c_normalize", "c_flush"} =>
          Len(codeFile) + enc.fluxLen = 5 + hist.eshifts
    /\ pc \in {"c_done", "d_fill", "d_loop", "d_predict", "d_decode", "d_update",
               "d_normalize", "d_done"} =>
          /\ Len(codeFile) = 9 + hist.eshifts
          /\ codeFile[5] = 0
    /\ pc = "d_fill" => rpos = 4
    /\ pc \in {"d_loop", "d_predict", "d_decode", "d_update", "d_normalize", "d_done"} =>
          /\ rpos = 9 + hist.dshifts
          /\ hist.dshifts <= hist.eshifts
    /\ pc = "d_done" =>
          /\ hist.dshifts = hist.eshifts
          /\ rpos = Len(codeFile)

\* Decompress has finished on the code of a text of MaxLen bytes that took
\* two shifts or more, with all of the file read
NoOverReadReached ==
    /\ pc = "d_done"
    /\ Len(textFile) = MaxLen
    /\ hist.eshifts >= 2
    /\ Len(codeFile) = 9 + hist.eshifts
    /\ rpos = Len(codeFile)
    /\ hist.eofs = 0

\* C31: Divide is precise when n and m are small enough: for n <= 17 and
\* m <= 10, where neither argument is shifted, Divide(x, n, y, m) is the floor
\* of x / y for every 0 <= x < 2^n and 1 <= y < 2^m
DividePrecise ==
    (/\ calc.fn = "Divide"
     /\ calc.args[2] <= 32 - RECIPROCAL_BITS
     /\ calc.args[4] <= DIVISOR_BITS
     /\ calc.args[3] >= 1)
        => calc.val = calc.args[1] \div calc.args[3]

\* C32: for every memoryLimit main accepts, nodesLimit is memoryLimit * 2^20 / 16
\* exactly: neither the int product nor the int nodesLimit wraps
ArenaSizeExact ==
    calc.fn = "nodesLimit" => calc.val = calc.args[1] * (2 ^ 20 \div SizeofNode)

\* an option argument: a string that starts with '-' and is longer than one
\* character
OptionArgument(arg) == Len(arg) > 1 /\ arg[1] = "-"

NonOptionArgument(arg) == ~OptionArgument(arg)

RECURSIVE ValidOptions(_)
\* the characters after the '-' are flags of "hVvqm:O:", or flags and then m
\* or O with its argument attached
ValidOptions(s) ==
    IF s = <<>> THEN TRUE
    ELSE IF s[1] \in {"h", "V", "v", "q"} THEN ValidOptions(Tail(s))
    ELSE IF s[1] \in {"m", "O"} THEN Len(s) > 1
    ELSE FALSE

\* every option argument of argv is valid
AllValid(argv) ==
    \A i \in 2 .. Len(argv) : OptionArgument(argv[i]) => ValidOptions(Tail(argv[i]))

RECURSIVE OptionCharacters(_)
\* the option characters of the characters after a '-', left to right: what
\* follows m or O is its argument
OptionCharacters(s) ==
    IF s = <<>> THEN <<>>
    ELSE IF s[1] \in {"m", "O"} THEN <<s[1]>>
    ELSE <<s[1]>> \o OptionCharacters(Tail(s))

RECURSIVE AllOptionCharacters(_)
\* the option characters of the arguments, left to right
AllOptionCharacters(args) ==
    IF args = <<>> THEN <<>>
    ELSE (IF OptionArgument(Head(args)) THEN OptionCharacters(Tail(Head(args))) ELSE <<>>)
             \o AllOptionCharacters(Tail(args))

\* C33: getopt permutes argv: for an argv whose option arguments are all valid,
\* when getopt returns -1, argv[1..optind) holds the option arguments in their
\* original order, argv[optind..argc) holds the non-option arguments in their
\* original order, and every option character was returned once, left to right
GetoptPermutes ==
    (pc = "getopt" /\ parse.c = "-1" /\ AllValid(parse.orig))
        => /\ SubSeq(parse.argv, 2, parse.optind)
                = SelectSeq(Tail(parse.orig), OptionArgument)
           /\ SubSeq(parse.argv, parse.optind + 1, Len(parse.argv))
                = SelectSeq(Tail(parse.orig), NonOptionArgument)
           /\ parse.returned = AllOptionCharacters(Tail(parse.orig))

\* getopt has returned -1 on a valid command line where two non-options came
\* before an option argument of more than one option character
GetoptPermutesReached ==
    /\ pc = "getopt"
    /\ parse.c = "-1"
    /\ AllValid(parse.orig)
    /\ Len(parse.orig) = 4
    /\ NonOptionArgument(parse.orig[2])
    /\ NonOptionArgument(parse.orig[3])
    /\ parse.orig[2] # parse.orig[3]
    /\ OptionArgument(parse.orig[4])
    /\ Len(parse.returned) >= 2
    /\ parse.argv # parse.orig

=============================================================================
